---- MODULE Spec2Model ----
(***************************************************************************)
(* License lifecycle of the driving-test backend (src/routes/routes.js):   *)
(* the route_licenses table, POST /create-payment-intent, POST              *)
(* /confirm-payment, POST /webhook, the license lookup hasActiveLicense,    *)
(* the links and access tokens, and the daily quota of the chatbot          *)
(* (src/routes/chatbot.js).  A handler is split at its awaits: one action   *)
(* per statement the store or the gateway executes, together with the       *)
(* synchronous code that follows it up to the next await.                   *)
(***************************************************************************)
EXTENDS Integers, Sequences, FiniteSets, Bags, TLC

VARIABLES
  route_licenses,   \* the route_licenses table, rows in insertion order
  reqs,             \* bag of the requests whose handler is suspended at an await
  out,              \* the response written by the last step, NoReq when it wrote none
  now,              \* wall clock, minutes since 2025-01-01T00:00Z
  webhookSecret,    \* process.env.STRIPE_WEBHOOK_SECRET is set
  sending,          \* the clients go on sending requests
  route_links,      \* the route_links table, rows in insertion order
  naas_access_tokens, \* the naas_access_tokens table, rows in insertion order
  route_settings,   \* link_expiry_hours of the route_settings row with id 1, or NoRow
  handed,           \* the access tokens the clients hold, each with the endpoint that answered it
  stripe,           \* the Stripe client was initialized (STRIPE_SECRET_KEY is set)
  paymentIntents,   \* the payment intents the gateway created, in creation order
  chatbot_usage,    \* the chatbot_usage table, rows in insertion order
  passed            \* per user and day, the requests checkAndIncrementUsage allowed

linkVars == <<route_links, naas_access_tokens, route_settings, handed>>

payVars == <<stripe, paymentIntents>>

chatVars == <<chatbot_usage, passed>>

moreVars == <<payVars, chatVars>>

\* what no handler writes: the configuration, and the clients
envVars == <<webhookSecret, sending>>

vars == <<route_licenses, reqs, out, now, envVars, linkVars, moreVars>>

----------------------------------------------------------------------------
(* Bounds of the model *)

MaxReqs == 1
MaxRaceReqs == 2
MaxTicks == 1

(* Inputs *)

Null == "NULL"
NoUser == 0
Users == {1, 2}
EventUsers == {NoUser, 1}
PaymentRefs == {"pi_1"}
SessionRefs == {"cs_1"}
BundleThreshold == 1399
\* the prices a client pays: a single route, the full bundle, and a cent less
EventPrices == {299, BundleThreshold - 1, BundleThreshold}
\* (amount, metadata.purchase_type) of the payment intents that carry a user
\* id: create-payment-intent sets purchase_type from the price
PurchaseKinds ==
  {<<price, IF price >= BundleThreshold THEN "bundle" ELSE "single">> : price \in EventPrices}
IntentStatuses == {"succeeded", "processing"}
QueryOutcomes == {"ok", "outage"}

\* INSERT INTO route_settings (id, link_expiry_hours) VALUES (1, 12), and the || 12 of the reads
DefaultLinkExpiryHours == 12
MinutesPerDay == 1440
TickStep == 46 * MinutesPerDay
EpochYear == 2025

----------------------------------------------------------------------------
(* JavaScript Date arithmetic, on minutes since the epoch (UTC) *)

IsLeap(y) == (y % 4 = 0 /\ y % 100 # 0) \/ y % 400 = 0

DaysInYear(y) == IF IsLeap(y) THEN 366 ELSE 365

\* m is a JavaScript month, 0..11
DaysInMonth(y, m) ==
  IF m = 1 THEN (IF IsLeap(y) THEN 29 ELSE 28)
  ELSE IF m \in {3, 5, 8, 10} THEN 30 ELSE 31

DaysBeforeYear[y \in Int] ==
  IF y <= EpochYear THEN 0 ELSE DaysBeforeYear[y - 1] + DaysInYear(y - 1)

DaysBeforeMonth[y \in Int, m \in Int] ==
  IF m <= 0 THEN 0 ELSE DaysBeforeMonth[y, m - 1] + DaysInMonth(y, m - 1)

YearFromDay[y \in Int, day \in Int] ==
  IF day < DaysInYear(y) THEN y ELSE YearFromDay[y + 1, day - DaysInYear(y)]

MonthFromDay[y \in Int, m \in Int, day \in Int] ==
  IF day < DaysInMonth(y, m) THEN m ELSE MonthFromDay[y, m + 1, day - DaysInMonth(y, m)]

\* MakeDay/MakeDate: month overflow carries into the year, day overflow into the next months
MakeTime(y, m, d, mins) ==
  LET yy == y + (m \div 12)
      mm == m % 12
  IN  (DaysBeforeYear[yy] + DaysBeforeMonth[yy, mm] + (d - 1)) * MinutesPerDay + mins

getFullYear(t) == YearFromDay[EpochYear, t \div MinutesPerDay]

getMonth(t) ==
  LET y == getFullYear(t)
  IN  MonthFromDay[y, 0, (t \div MinutesPerDay) - DaysBeforeYear[y]]

getDate(t) ==
  LET y == getFullYear(t)
      m == getMonth(t)
  IN  (t \div MinutesPerDay) - DaysBeforeYear[y] - DaysBeforeMonth[y, m] + 1

\* d.setMonth(k): same year, day of month and time of day, month k (may overflow)
setMonth(t, k) == MakeTime(getFullYear(t), k, getDate(t), t % MinutesPerDay)

\* d.setDate(k): same year, month and time of day, day of month k (may overflow)
setDate(t, k) == MakeTime(getFullYear(t), getMonth(t), k, t % MinutesPerDay)

\* new Date('2099-12-31T23:59:59Z'), to the minute
PermanentExpiry == MakeTime(2099, 11, 31, 1439)

\* 2025-11-30T10:00Z: three calendar months ahead there is no 30 February
StartTimes == {MakeTime(2025, 10, 30, 600)}

----------------------------------------------------------------------------
(* The route_licenses table *)

LicenseRow(userId, paymentIntentId, sessionId, expiresAt) ==
  [user_id |-> userId,
   stripe_payment_intent_id |-> paymentIntentId,
   stripe_checkout_session_id |-> sessionId,
   purchased_at |-> now,
   expires_at |-> expiresAt,
   is_active |-> TRUE]

\* SELECT id FROM route_licenses WHERE stripe_payment_intent_id = $1
LicensesForPayment(table, paymentIntentId) ==
  {k \in DOMAIN table : table[k].stripe_payment_intent_id = paymentIntentId}

LicensesForSession(table, sessionId) ==
  {k \in DOMAIN table : table[k].stripe_checkout_session_id = sessionId}

\* the existence check both payment handlers run before their INSERT
ExistingLicense(table, paymentIntentId) == LicensesForPayment(table, paymentIntentId)

\* the two UNIQUE columns; NULLs never collide
NoUniqueViolation(table, row) == FALSE

UniqueViolation(table, row) ==
  \/ /\ row.stripe_payment_intent_id # Null
     /\ LicensesForPayment(table, row.stripe_payment_intent_id) # {}
  \/ /\ row.stripe_checkout_session_id # Null
     /\ LicensesForSession(table, row.stripe_checkout_session_id) # {}

\* INSERT INTO route_licenses ... when no constraint is violated
InsertLicenseReplacing(table, row) == <<row>>

InsertLicense(table, row) == Append(table, row)

----------------------------------------------------------------------------
(* hasActiveLicense *)

AdminUserIds == {2}

NoLicense == [found |-> FALSE, expires_at |-> 0, is_permanent |-> FALSE]

\* ORDER BY expires_at DESC LIMIT 1 over the rows the WHERE clause keeps
LatestLicense(table, keep) ==
  IF keep = {} THEN NoLicense
  ELSE LET k == CHOOSE k \in keep : \A j \in keep : table[j].expires_at <= table[k].expires_at
       IN  [found |-> TRUE, expires_at |-> table[k].expires_at, is_permanent |-> FALSE]

\* q1: outcome of the is_active-filtered query; q2: outcome of the fallback query
hasActiveLicenseNoRetry(userId, q1, q2) ==
  IF userId \in AdminUserIds
  THEN [found |-> TRUE, expires_at |-> PermanentExpiry, is_permanent |-> TRUE]
  ELSE IF q1 = "ok"
  THEN LatestLicense(route_licenses,
         {k \in DOMAIN route_licenses :
            /\ route_licenses[k].user_id = userId
            /\ route_licenses[k].is_active
            /\ route_licenses[k].expires_at > now})
  ELSE NoLicense

hasActiveLicenseNoAllowList(userId, q1, q2) ==
  IF q1 = "ok" \/ (q1 = "is_active missing" /\ q2 = "ok")
  THEN LatestLicense(route_licenses,
         {k \in DOMAIN route_licenses :
            /\ route_licenses[k].user_id = userId
            /\ route_licenses[k].expires_at > now})
  ELSE NoLicense

hasActiveLicenseIgnoringExpiry(userId, q1, q2) ==
  IF userId \in AdminUserIds
  THEN [found |-> TRUE, expires_at |-> PermanentExpiry, is_permanent |-> TRUE]
  ELSE LatestLicense(route_licenses,
         {k \in DOMAIN route_licenses : route_licenses[k].user_id = userId})

hasActiveLicense(userId, q1, q2) ==
  IF userId \in AdminUserIds
  THEN [found |-> TRUE, expires_at |-> PermanentExpiry, is_permanent |-> TRUE]
  ELSE IF q1 = "ok"
  THEN LatestLicense(route_licenses,
         {k \in DOMAIN route_licenses :
            /\ route_licenses[k].user_id = userId
            /\ route_licenses[k].is_active
            /\ route_licenses[k].expires_at > now})
  ELSE IF q1 = "is_active missing" /\ q2 = "ok"
  THEN LatestLicense(route_licenses,
         {k \in DOMAIN route_licenses :
            /\ route_licenses[k].user_id = userId
            /\ route_licenses[k].expires_at > now})
  ELSE NoLicense

\* the hasActiveLicense of the copy of the module that holds POST /checkout:
\* it has no allow-list, every caller's license is queried
hasActiveLicenseOfCheckout(userId, q1, q2) ==
  IF q1 = "ok"
  THEN LatestLicense(route_licenses,
         {k \in DOMAIN route_licenses :
            /\ route_licenses[k].user_id = userId
            /\ route_licenses[k].is_active
            /\ route_licenses[k].expires_at > now})
  ELSE IF q1 = "is_active missing" /\ q2 = "ok"
  THEN LatestLicense(route_licenses,
         {k \in DOMAIN route_licenses :
            /\ route_licenses[k].user_id = userId
            /\ route_licenses[k].expires_at > now})
  ELSE NoLicense

----------------------------------------------------------------------------
(* Requests *)

NoReq ==
  [kind |-> "none", pc |-> "idle",
   caller |-> NoUser,          \* req.user.user_id
   id |-> Null,                \* paymentIntentId, or event.data.object.id
   sig |-> FALSE,              \* the stripe-signature header matches the body
   type |-> "",                \* event.type
   user |-> NoUser,            \* metadata.user_id / client_reference_id
   amount |-> 0,
   purchase_type |-> "",
   payment_intent |-> Null,    \* session.payment_intent
   intent_status |-> "",       \* paymentIntent.status
   at |-> 0,                   \* the new Date() that expiresAt was computed from
   expiresAt |-> 0,
   inserted |-> FALSE,         \* this handler's INSERT was executed
   err |-> "none",             \* what the caught error was
   status |-> 0, body |-> ""]

PaymentIntentEvents ==
  {[type |-> "payment_intent.succeeded", id |-> p, user |-> u, amount |-> k[1],
    purchase_type |-> k[2], payment_intent |-> Null] :
     p \in PaymentRefs, u \in Users \cap EventUsers, k \in PurchaseKinds}
  \cup
  \* the intent of a checkout session: metadata without user_id and purchase_type
  {[type |-> "payment_intent.succeeded", id |-> p, user |-> NoUser, amount |-> 1399,
    purchase_type |-> "", payment_intent |-> Null] : p \in PaymentRefs}

CheckoutEvents ==
  {[type |-> "checkout.session.completed", id |-> c, user |-> u, amount |-> 0,
    purchase_type |-> "", payment_intent |-> p] :
     c \in SessionRefs, u \in EventUsers, p \in PaymentRefs \cup {Null}}

OtherEvents ==
  {[type |-> "charge.refunded", id |-> Null, user |-> NoUser, amount |-> 0,
    purchase_type |-> "", payment_intent |-> Null]}

Events == PaymentIntentEvents \cup CheckoutEvents \cup OtherEvents

\* bodies sent by someone who cannot sign them
ForgedEvents == {ev \in Events : ev.user # NoUser /\ ev.purchase_type \in {"", "bundle"}}

\* a delivery: whether its signature matches, and its body
Deliveries == {<<TRUE, ev>> : ev \in Events} \cup {<<FALSE, ev>> : ev \in ForgedEvents}

\* the intents confirm-payment is called for: the two products of create-payment-intent
IntentKinds == {<<1399, "bundle">>, <<299, "single">>}

Intents ==
  {[user |-> u, status |-> st, amount |-> k[1], purchase_type |-> k[2]] :
     u \in EventUsers, st \in IntentStatuses, k \in IntentKinds}

NoIntent == [user |-> NoUser, status |-> "", amount |-> 0, purchase_type |-> ""]

\* what stripe.paymentIntents.retrieve does: it answers with an intent, or it throws
RetrieveOutcomes == {<<"ok", i>> : i \in Intents} \cup {<<"error", NoIntent>>}

\* a response that grants nothing carries no amount and no expiry
Refuse(r, status, body) ==
  [r EXCEPT !.pc = "done", !.status = status, !.body = body,
            !.amount = 0, !.purchase_type = "", !.payment_intent = Null,
            !.at = 0, !.expiresAt = 0]

Respond(r, status, body) == [r EXCEPT !.pc = "done", !.status = status, !.body = body]

\* the error escapes the handler: the request is never answered
FailUncaught(r, err, status, body) == [r EXCEPT !.pc = "escaped", !.err = err]

\* a catch block: the error is logged and answered
Fail(r, err, status, body) == [Refuse(r, status, body) EXCEPT !.err = err]

\* the handler of r moves on: it suspends again as r2, or it answers r2
Continue(r, r2) ==
  IF r2.pc = "done"
  THEN /\ reqs' = reqs (-) SetToBag({r})
       /\ out' = r2
  ELSE /\ reqs' = (reqs (-) SetToBag({r})) (+) SetToBag({r2})
       /\ out' = NoReq

\* a request arrives: its handler answers at once with r, or suspends as r
\* beside the handlers already suspended, fewer than maxReqs
Arrive(r, maxReqs) ==
  IF r.pc = "done"
  THEN /\ reqs' = reqs
       /\ out' = r
  ELSE /\ BagCardinality(reqs) < maxReqs
       /\ reqs' = reqs (+) SetToBag({r})
       /\ out' = NoReq

----------------------------------------------------------------------------
(* POST /webhook *)

\* the status of the catch blocks around license creation
WebhookFailureStatus == 500

\* stripe.webhooks.constructEvent returns the event iff the signature matches
constructEventUnverified(sig) == TRUE

\* stripe.webhooks.constructEvent(req.body, sig, webhookSecret) returns the
\* event of a body the signature matches; it throws otherwise, and the call
\* itself throws when the client was never initialized (stripe is undefined)
constructEvent(sig) == stripe /\ sig

\* metadata.purchase_type || 'bundle'
purchaseTypeOf(r) == IF r.purchase_type = "" THEN "bundle" ELSE r.purchase_type

WebhookExpiresAtAlwaysMonths(t, purchaseType, amount) == setMonth(t, getMonth(t) + 3)

WebhookExpiresAt(t, purchaseType, amount) ==
  IF purchaseType = "bundle" \/ amount >= BundleThreshold
  THEN setMonth(t, getMonth(t) + 3)
  ELSE setDate(t, getDate(t) + 30)

\* up to the first await: secret, signature, event type, user id
WebhookReceive(sig, ev, maxReqs) ==
  /\ LET r0 == [NoReq EXCEPT !.kind = "webhook", !.sig = sig]
         r == [r0 EXCEPT !.type = ev.type, !.id = ev.id, !.user = ev.user,
                         !.amount = ev.amount, !.purchase_type = ev.purchase_type,
                         !.payment_intent = ev.payment_intent]
     IN  Arrive(
           IF ~webhookSecret
           THEN Refuse(r0, 500, "Webhook secret not configured")
           ELSE IF ~constructEvent(sig)
           THEN Refuse(r0, 400, "Webhook Error")
           ELSE IF ev.type = "payment_intent.succeeded"
           THEN IF ev.user = NoUser
                THEN Refuse(r, 400, "No user_id in payment intent")
                ELSE [r EXCEPT !.pc = "select"]
           ELSE IF ev.type = "checkout.session.completed"
           THEN IF ev.user = NoUser
                THEN Refuse(r, 400, "No user_id in session")
                ELSE [r EXCEPT !.pc = "insert", !.at = now,
                               !.expiresAt = setMonth(now, getMonth(now) + 3)]
           ELSE Refuse(r, 200, "received"),
           maxReqs)
  /\ UNCHANGED <<route_licenses, now, envVars, moreVars, linkVars>>

\* the existence SELECT of the payment_intent.succeeded branch, and what follows it
WebhookSelect(r, q) ==
  /\ BagIn(r, reqs) /\ r.kind = "webhook" /\ r.pc = "select"
  /\ Continue(r,
       IF q # "ok"
       THEN Fail(r, q, WebhookFailureStatus, "Failed to create license")
       ELSE IF ExistingLicense(route_licenses, r.id) # {}
       THEN Refuse(r, 200, "received: License already exists")
       ELSE [r EXCEPT !.pc = "insert", !.at = now,
                      !.expiresAt = WebhookExpiresAt(now, purchaseTypeOf(r), r.amount)])
  /\ UNCHANGED <<route_licenses, now, envVars, moreVars, linkVars>>

\* the row either branch of the webhook inserts
WebhookRow(r) ==
  IF r.type = "payment_intent.succeeded"
  THEN LicenseRow(r.user, r.id, Null, r.expiresAt)
  ELSE LicenseRow(r.user, r.payment_intent, r.id, r.expiresAt)

\* the INSERT of either branch, and the response
WebhookInsert(r, q) ==
  /\ BagIn(r, reqs) /\ r.kind = "webhook" /\ r.pc = "insert"
  /\ IF q # "ok"
     THEN /\ Continue(r, Fail(r, q, WebhookFailureStatus, "Failed to create license"))
          /\ UNCHANGED route_licenses
     ELSE IF UniqueViolation(route_licenses, WebhookRow(r))
     THEN /\ Continue(r, Fail(r, "unique", WebhookFailureStatus, "Failed to create license"))
          /\ UNCHANGED route_licenses
     ELSE /\ route_licenses' = InsertLicense(route_licenses, WebhookRow(r))
          /\ Continue(r, Respond([r EXCEPT !.inserted = TRUE], 200, "received"))
  /\ UNCHANGED <<now, envVars, moreVars, linkVars>>

----------------------------------------------------------------------------
(* POST /confirm-payment *)

OwnsAnyIntent(intentUser, userId) == TRUE

\* paymentIntent.metadata.user_id === userId.toString()
OwnsIntent(intentUser, userId) == intentUser = userId

ConfirmExpiresAt(t) == setMonth(t, getMonth(t) + 3)

\* up to the gateway call; paymentIntentId = Null is a body without the field
ConfirmReceive(userId, paymentIntentId, maxReqs) ==
  /\ LET r == [NoReq EXCEPT !.kind = "confirm", !.caller = userId, !.id = paymentIntentId]
     IN  Arrive(IF paymentIntentId = Null
                THEN Refuse(r, 400, "Payment intent ID required")
                ELSE IF ~stripe
                THEN Fail(r, "stripe undefined", 500, "Failed to confirm payment")
                ELSE [r EXCEPT !.pc = "retrieve"],
                maxReqs)
  /\ UNCHANGED <<route_licenses, now, envVars, moreVars, linkVars>>

\* stripe.paymentIntents.retrieve answers (g = "ok") with the intent, or throws
ConfirmRetrieve(r, g, intent) ==
  /\ BagIn(r, reqs) /\ r.kind = "confirm" /\ r.pc = "retrieve"
  /\ LET r2 == [r EXCEPT !.user = intent.user, !.intent_status = intent.status,
                         !.amount = intent.amount, !.purchase_type = intent.purchase_type]
     IN  Continue(r,
           IF g # "ok"
           THEN Fail(r, g, 500, "Failed to confirm payment")
           ELSE IF ~OwnsIntent(intent.user, r.caller)
           THEN Refuse(r2, 403, "Payment does not belong to this user")
           ELSE IF intent.status # "succeeded"
           THEN Refuse(r2, 400, "Payment not completed")
           ELSE [r2 EXCEPT !.pc = "select"])
  /\ UNCHANGED <<route_licenses, now, envVars, moreVars, linkVars>>

ConfirmSelect(r, q) ==
  /\ BagIn(r, reqs) /\ r.kind = "confirm" /\ r.pc = "select"
  /\ Continue(r,
       IF q # "ok"
       THEN Fail(r, q, 500, "Failed to confirm payment")
       ELSE IF ExistingLicense(route_licenses, r.id) # {}
       THEN Refuse(r, 400, "License already created for this payment")
       ELSE [r EXCEPT !.pc = "insert", !.at = now, !.expiresAt = ConfirmExpiresAt(now)])
  /\ UNCHANGED <<route_licenses, now, envVars, moreVars, linkVars>>

ConfirmRow(r) == LicenseRow(r.caller, r.id, Null, r.expiresAt)

ConfirmInsert(r, q) ==
  /\ BagIn(r, reqs) /\ r.kind = "confirm" /\ r.pc = "insert"
  /\ IF q # "ok"
     THEN /\ Continue(r, Fail(r, q, 500, "Failed to confirm payment"))
          /\ UNCHANGED route_licenses
     ELSE IF UniqueViolation(route_licenses, ConfirmRow(r))
     THEN /\ Continue(r, Fail(r, "unique", 500, "Failed to confirm payment"))
          /\ UNCHANGED route_licenses
     ELSE /\ route_licenses' = InsertLicense(route_licenses, ConfirmRow(r))
          /\ Continue(r, Respond([r EXCEPT !.inserted = TRUE], 200,
                                 "License activated successfully"))
  /\ UNCHANGED <<now, envVars, moreVars, linkVars>>

----------------------------------------------------------------------------
(* JavaScript values of a request body: a field that is absent, a number, or a
   string, which is the sequence of its characters *)

JsUndefined == [type |-> "undefined", num |-> 0, str |-> <<>>]

JsNumber(n) == [type |-> "number", num |-> n, str |-> <<>>]

JsString(s) == [type |-> "string", num |-> 0, str |-> s]

\* the result of parseInt that is not a number
NaN == -2147483647
\* requestedAmount = null
NullAmount == -2147483646

\* the digits of parseInt in their order: the value of a digit is its place,
\* and a letter counts in either case
DigitChars ==
  <<"0", "1", "2", "3", "4", "5", "6", "7", "8", "9", "a", "b", "c", "d", "e", "f">>

UpperDigitChars == <<"A", "B", "C", "D", "E", "F">>

DigitValue(c) ==
  IF \E i \in DOMAIN DigitChars : DigitChars[i] = c
  THEN (CHOOSE i \in DOMAIN DigitChars : DigitChars[i] = c) - 1
  ELSE (CHOOSE i \in DOMAIN UpperDigitChars : UpperDigitChars[i] = c) + 9

\* c is a digit of the radix
IsDigit(c, radix) ==
  /\ \/ \E i \in DOMAIN DigitChars : DigitChars[i] = c
     \/ \E i \in DOMAIN UpperDigitChars : UpperDigitChars[i] = c
  /\ DigitValue(c) < radix

\* WhiteSpace and LineTerminator of ECMAScript, which parseInt and trim skip:
\* the characters with an escape, and the others by their code point
WhiteSpace ==
  {" ", "\t", "\n", "\f", "\r", "U+000B", "U+00A0", "U+FEFF", "U+2028", "U+2029",
   "U+1680", "U+2000", "U+2001", "U+2002", "U+2003", "U+2004", "U+2005", "U+2006",
   "U+2007", "U+2008", "U+2009", "U+200A", "U+202F", "U+205F", "U+3000"}

\* v ? ... : ... of JavaScript: undefined, 0, NaN and the empty string are falsy
Truthy(v) ==
  CASE v.type = "undefined" -> FALSE
    [] v.type = "number" -> v.num \notin {0, NaN}
    [] v.type = "string" -> Len(v.str) > 0

\* the digits of s from position i on, read in the radix onto acc; NaN when
\* there is none
RECURSIVE ParseDigits(_, _, _, _, _)
ParseDigits(s, i, radix, acc, seen) ==
  IF i > Len(s) \/ ~IsDigit(s[i], radix)
  THEN IF seen THEN acc ELSE NaN
  ELSE ParseDigits(s, i + 1, radix, acc * radix + DigitValue(s[i]), TRUE)

RECURSIVE SkipWhiteSpace(_, _)
SkipWhiteSpace(s, i) ==
  IF i <= Len(s) /\ s[i] \in WhiteSpace THEN SkipWhiteSpace(s, i + 1) ELSE i

\* parseInt of a string, no radix given: leading white space, an optional
\* sign, the prefix 0x or 0X which makes the radix sixteen, and the longest
\* run of digits of the radix; what follows the digits is ignored
parseIntString(s) ==
  LET i == SkipWhiteSpace(s, 1)
      signed == i <= Len(s) /\ s[i] \in {"-", "+"}
      j == IF signed THEN i + 1 ELSE i
      hex == j + 1 <= Len(s) /\ s[j] = "0" /\ s[j + 1] \in {"x", "X"}
      digits == IF hex THEN ParseDigits(s, j + 2, 16, 0, FALSE)
                ELSE ParseDigits(s, j, 10, 0, FALSE)
  IN  IF digits = NaN THEN NaN
      ELSE IF signed /\ s[i] = "-" THEN 0 - digits ELSE digits

\* ToString of an integer: its sign and its decimal digits
RECURSIVE DecimalDigits(_)
DecimalDigits(n) ==
  IF n < 10 THEN <<DigitChars[n + 1]>>
  ELSE Append(DecimalDigits(n \div 10), DigitChars[(n % 10) + 1])

NumberToString(n) == IF n < 0 THEN <<"-">> \o DecimalDigits(0 - n) ELSE DecimalDigits(n)

\* parseInt(v): the argument is converted to a string and parsed; the
\* numbers of the model are integers
parseInt(v) ==
  CASE v.type = "undefined" -> NaN
    [] v.type = "number" -> IF v.num = NaN THEN NaN ELSE parseIntString(NumberToString(v.num))
    [] v.type = "string" -> parseIntString(v.str)

isNaN(x) == x = NaN

\* !x, and the x of x || y, for a number or null
FalsyAmount(x) == x \in {NullAmount, 0, NaN}

\* s.trim().length === 0
RECURSIVE TrimmedEmpty(_)
TrimmedEmpty(s) ==
  IF Len(s) = 0 THEN TRUE
  ELSE IF Head(s) \in WhiteSpace THEN TrimmedEmpty(Tail(s)) ELSE FALSE

\* the specifications of the endpoints that never read the gateway client take
\* it as initialized, and leave the chatbot table as it is at start-up
PayIdle == stripe = TRUE /\ paymentIntents = <<>>

ChatIdle == chatbot_usage = <<>> /\ passed = EmptyBag

----------------------------------------------------------------------------
(* Environment *)

\* the wall clock moves on, between requests or while handlers are suspended:
\* every new Date() and every NOW() reads it where it stands
Tick ==
  /\ \E t \in StartTimes : now + TickStep <= t + MaxTicks * TickStep
  /\ now' = now + TickStep
  /\ out' = NoReq
  /\ UNCHANGED <<route_licenses, reqs, envVars, moreVars, linkVars>>

Init ==
  /\ route_licenses = <<>>
  /\ reqs = EmptyBag
  /\ out = NoReq
  /\ now \in StartTimes
  /\ webhookSecret \in BOOLEAN
  /\ sending = TRUE
  /\ route_links = <<>>
  /\ naas_access_tokens = <<>>
  /\ handed = {}
  /\ stripe \in BOOLEAN
  /\ paymentIntents = <<>>
  /\ ChatIdle
  /\ route_settings = DefaultLinkExpiryHours

InFlight == BagToSet(reqs)

Next ==
  \/ \E d \in Deliveries : WebhookReceive(d[1], d[2], MaxReqs)
  \/ \E r \in InFlight, q \in QueryOutcomes : WebhookSelect(r, q)
  \/ \E r \in InFlight, q \in QueryOutcomes : WebhookInsert(r, q)
  \/ \E userId \in Users, p \in PaymentRefs \cup {Null} :
       ConfirmReceive(userId, p, MaxReqs)
  \/ \E r \in InFlight, g \in RetrieveOutcomes : ConfirmRetrieve(r, g[1], g[2])
  \/ \E r \in InFlight, q \in QueryOutcomes : ConfirmSelect(r, q)
  \/ \E r \in InFlight, q \in QueryOutcomes : ConfirmInsert(r, q)
  \/ Tick

Spec == Init /\ [][Next]_vars

----------------------------------------------------------------------------
(* The calls for one purchase, racing: the deliveries of its events, signed,
   and the confirm-payment calls of the buyer *)

\* the events of the bundle user 1 bought: the payment intent, and the
\* checkout session with or without that intent
RaceEvents ==
  {ev \in Events :
     ev.user = 1 /\ ev.amount \in {0, 1399} /\ ev.purchase_type \in {"", "bundle"}}

\* the gateway reports that intent succeeded, or throws
RaceRetrieveOutcomes ==
  {g \in RetrieveOutcomes :
     g[1] = "ok" => g[2].user = 1 /\ g[2].status = "succeeded" /\ g[2].amount = 1399}

RaceInit ==
  /\ route_licenses = <<>>
  /\ reqs = EmptyBag
  /\ out = NoReq
  /\ now \in StartTimes
  /\ webhookSecret = TRUE
  /\ sending = TRUE
  /\ route_links = <<>>
  /\ naas_access_tokens = <<>>
  /\ handed = {}
  /\ stripe \in BOOLEAN
  /\ paymentIntents = <<>>
  /\ ChatIdle
  /\ route_settings = DefaultLinkExpiryHours

RaceNext ==
  \/ \E ev \in RaceEvents : WebhookReceive(TRUE, ev, MaxRaceReqs)
  \/ \E r \in InFlight, q \in QueryOutcomes : WebhookSelect(r, q)
  \/ \E r \in InFlight, q \in QueryOutcomes : WebhookInsert(r, q)
  \/ \E p \in PaymentRefs : ConfirmReceive(1, p, MaxRaceReqs)
  \/ \E r \in InFlight, g \in RaceRetrieveOutcomes : ConfirmRetrieve(r, g[1], g[2])
  \/ \E r \in InFlight, q \in QueryOutcomes : ConfirmSelect(r, q)
  \/ \E r \in InFlight, q \in QueryOutcomes : ConfirmInsert(r, q)
  \/ Tick

RaceSpec == RaceInit /\ [][RaceNext]_vars

----------------------------------------------------------------------------
(* Links and access tokens: bounds and inputs *)

MaxRows == 1
MaxLinkTicks == 1
MaxLinkReqs == 1
MaxLifeReqs == 2
MaxMints == 2
MaxMintReqs == 2

MinutesPerHour == 60
\* expiresAt.setMinutes(expiresAt.getMinutes() + 30)
TokenMinutes == 30
\* a token no row holds
GuessedToken == 0
\* no row with id 1
NoRow == -1
\* a body without routeNumber
NoNumber == -1
\* last_accessed_at of a row no request has accessed (NULL)
NotAccessed == -1

\* req.body.centreName and req.body.routeNumber; Null is a body without centreName
GenerateLinkBodies == {<<"Naas", 3>>, <<Null, 3>>, <<"Naas", NoNumber>>, <<"Naas", 0>>}
\* link_expiry_hours of the settings row
SettingsValues == {NoRow, 0, 1, DefaultLinkExpiryHours}
\* :routeId of the proxy endpoint
RouteIds == {JsString(<<"1">>), JsString(<<"9", "9">>)}
\* the data file an access-token endpoint serves
Datasets == {"naas", "tallaght"}
\* the outcomes of the two queries of hasActiveLicense
LicenseQueries == {<<"ok", "ok">>, <<"is_active missing", "ok">>,
                   <<"is_active missing", "outage">>, <<"outage", "ok">>}
\* the clock moves by thirteen hours: past the end of a token and of a link of
\* the default lifetime
LinkTickStep == (DefaultLinkExpiryHours + 1) * MinutesPerHour
\* callers of the link and token endpoints: a licensed user, an admin, a user with no license
LinkUsers == Users \cup {3}

\* !x of JavaScript, on a string field and on a number field
FalsyString(x) == x \in {Null, ""}

FalsyNumber(x) == x \in {NoNumber, 0}

getHours(t) == (t % MinutesPerDay) \div MinutesPerHour

getMinutes(t) == t % MinutesPerHour

setHoursWithinDay(t, k) == (t - (t % MinutesPerDay)) + (k % 24) * MinutesPerHour + getMinutes(t)

\* d.setHours(k): same day and minute, hour k (may overflow into the next days)
setHours(t, k) == (t - (t % MinutesPerDay)) + k * MinutesPerHour + getMinutes(t)

\* d.setMinutes(k): same day and hour, minute k (may overflow)
setMinutes(t, k) == (t - getMinutes(t)) + k

----------------------------------------------------------------------------
(* getLinkExpiryHours *)

getLinkExpiryHoursStored(q) == IF route_settings = NoRow THEN 0 ELSE route_settings

\* result.rows[0]?.link_expiry_hours || 12, and 12 when the query throws
getLinkExpiryHours(q) ==
  IF q # "ok" THEN DefaultLinkExpiryHours
  ELSE IF route_settings = NoRow THEN DefaultLinkExpiryHours
  ELSE IF FalsyNumber(route_settings) THEN DefaultLinkExpiryHours
  ELSE route_settings

----------------------------------------------------------------------------
(* The route_links and naas_access_tokens tables *)

LinkRow(userId, centreName, routeNumber, linkToken, expiresAt) ==
  [user_id |-> userId, centre_name |-> centreName, route_number |-> routeNumber,
   link_token |-> linkToken, created_at |-> now, expires_at |-> expiresAt,
   is_used |-> FALSE, last_accessed_at |-> NotAccessed]

TokenRow(userId, accessToken, expiresAt) ==
  [user_id |-> userId, access_token |-> accessToken, created_at |-> now,
   expires_at |-> expiresAt, is_used |-> FALSE, last_accessed_at |-> NotAccessed]

\* randomUUID() when it does not collide: a token no row of the table holds
FreshToken(table) == Len(table) + 1

TokenTakenNever(rows) == FALSE

\* the UNIQUE constraint on the token column: rows hold the token already
TokenTaken(rows) == rows # {}

\* SELECT ... FROM route_links WHERE link_token = $1
LinksOfToken(token) == {k \in DOMAIN route_links : route_links[k].link_token = token}

LinksOfTokenAnyUser(token, userId) == LinksOfToken(token)

LinksOfTokenAndLicensedUser(token, userId) ==
  {k \in DOMAIN route_links :
     /\ route_links[k].link_token = token /\ route_links[k].user_id = userId
     /\ \E j \in DOMAIN route_licenses :
          route_licenses[j].user_id = userId /\ route_licenses[j].expires_at > now}

\* SELECT ... FROM route_links WHERE link_token = $1 AND user_id = $2
LinksOfTokenAndUser(token, userId) ==
  {k \in DOMAIN route_links :
     route_links[k].link_token = token /\ route_links[k].user_id = userId}

\* SELECT ... FROM naas_access_tokens WHERE access_token = $1
TokensOfToken(token) ==
  {k \in DOMAIN naas_access_tokens : naas_access_tokens[k].access_token = token}

\* new Date(row.expires_at) < new Date()
ExpiredAlways(expiresAt) == FALSE

Expired(expiresAt) == expiresAt < now

\* the UPDATE without its WHERE clause
MarkUsedEveryRow(table, rows) ==
  [k \in DOMAIN table |-> [table[k] EXCEPT !.is_used = TRUE, !.last_accessed_at = now]]

\* the UPDATE flipping is_used
MarkUsedToggling(table, rows) ==
  [k \in DOMAIN table |->
     IF k \in rows THEN [table[k] EXCEPT !.is_used = ~@, !.last_accessed_at = now]
     ELSE table[k]]

\* UPDATE ... SET last_accessed_at = NOW(), is_used = true WHERE <token column> = $1
MarkUsed(table, rows) ==
  [k \in DOMAIN table |->
     IF k \in rows THEN [table[k] EXCEPT !.is_used = TRUE, !.last_accessed_at = now]
     ELSE table[k]]

----------------------------------------------------------------------------
(* Requests of the link and token endpoints *)

NoLinkReq ==
  [kind |-> "none", pc |-> "idle",
   caller |-> NoUser,          \* req.user.user_id; NoUser on the endpoint without auth
   token |-> GuessedToken,     \* req.params.token, or the token minted
   centre |-> Null, route |-> NoNumber,
   licenseAt |-> 0,            \* the clock when hasActiveLicense answered this handler
   at |-> 0,                   \* the new Date() of the handler: of expiresAt, of the expiry check
   expiresAt |-> 0,
   permanent |-> FALSE,        \* license.is_permanent
   licensed |-> FALSE,         \* hasActiveLicense returned a license to this handler
   changed |-> FALSE,          \* this handler's INSERT or UPDATE was executed
   is_used |-> FALSE,          \* is_used of the row, as the SELECT returned it
   routes |-> {},              \* the ids of naasData.routes that find searched
   links |-> {},               \* link_token of the rows GET /active-links returned
   hours |-> 0,                \* linkExpiryHours GET /settings returned
   err |-> "none",
   status |-> 0, body |-> ""]

LinkRefuse(r, status, body) ==
  [r EXCEPT !.pc = "done", !.status = status, !.body = body, !.at = 0, !.expiresAt = 0]

LinkRespond(r, status, body) == [r EXCEPT !.pc = "done", !.status = status, !.body = body]

LinkFail(r, err, status, body) == [LinkRefuse(r, status, body) EXCEPT !.err = err]

\* the handlers of the kinds that are suspended at one of the pcs
Suspended(kinds, pcs) ==
  BagCardinality([r \in {x \in DOMAIN reqs : x.kind \in kinds /\ x.pc \in pcs} |-> reqs[r]])

\* the awaits of a minting handler that passed the license check
MintingPcs == {"settings", "insert"}

\* the rows minted, and those about to be
Minted ==
  Len(route_links) + Len(naas_access_tokens)
    + Suspended({"generate-link", "generate-naas-token", "generate-tallaght-token"},
                MintingPcs)

\* the traffic a system is offered: concurrent handlers, and rows minted
LinkLimit == [reqs |-> MaxLinkReqs, rows |-> MaxRows]

\* a handler goes on to mint a row while the tables have room for it
Room(r, limit) == r.pc \in MintingPcs => Minted < limit.rows

\* a request arrives at a link or token endpoint: its handler answers at once
\* with r, or suspends as r at its first await
LinkArrive(r, limit) ==
  IF r.pc = "done"
  THEN /\ reqs' = reqs
       /\ out' = r
  ELSE /\ BagCardinality(reqs) < limit.reqs
       /\ Room(r, limit)
       /\ reqs' = reqs (+) SetToBag({r})
       /\ out' = NoLinkReq

\* the handler of r moves on: it suspends again as r2, or it answers r2
LinkContinue(r, r2) ==
  IF r2.pc = "done"
  THEN /\ reqs' = reqs (-) SetToBag({r})
       /\ out' = r2
  ELSE /\ reqs' = (reqs (-) SetToBag({r})) (+) SetToBag({r2})
       /\ out' = NoLinkReq

----------------------------------------------------------------------------
(* What the handlers do with the license hasActiveLicense returns *)

\* what hasActiveLicense logs: the warning of the retry, or the error it swallows
LicenseQueryLog(userId, q1, q2) ==
  IF userId \in AdminUserIds \/ q1 = "ok" THEN "none"
  ELSE IF q1 = "is_active missing" /\ q2 = "ok" THEN "is_active missing"
  ELSE "outage"

\* what the hasActiveLicense that POST /checkout calls logs
CheckoutQueryLog(q1, q2) ==
  IF q1 = "ok" THEN "none"
  ELSE IF q1 = "is_active missing" /\ q2 = "ok" THEN "is_active missing"
  ELSE "outage"

\* what the hasActiveLicense in scope of the handler of r returns
LicenseFor(r, q1, q2) ==
  IF r.kind = "checkout"
  THEN hasActiveLicenseOfCheckout(r.caller, q1, q2)
  ELSE hasActiveLicense(r.caller, q1, q2)

\* and what it logs
LicenseLogFor(r, q1, q2) ==
  IF r.kind = "checkout"
  THEN CheckoutQueryLog(q1, q2)
  ELSE LicenseQueryLog(r.caller, q1, q2)

\* GET /license-status: res.json({ hasLicense, expiresAt, isPermanent })
LicenseStatusAnswer(r, license) ==
  LinkRespond([r EXCEPT !.expiresAt = license.expires_at], 200,
              IF license.found THEN "hasLicense: true" ELSE "hasLicense: false")

GenerateLinkNoLicenseCheck(license) == TRUE

\* if (!license) return 403
GenerateLinkLicensed(license) == license.found

\* POST /generate-link: the 403, or on to getLinkExpiryHours
GenerateLinkLicense(r, license) ==
  IF ~GenerateLinkLicensed(license)
  THEN LinkRefuse(r, 403, "No active license")
  ELSE [r EXCEPT !.pc = "settings"]

\* POST /generate-naas-token and /generate-tallaght-token: the 403, or the
\* expiry of the token and on to the INSERT
GenerateTokenLicense(r, license) ==
  IF ~license.found
  THEN LinkRefuse(r, 403, "No active license")
  ELSE [r EXCEPT !.pc = "insert", !.at = now,
                 !.expiresAt = setMinutes(now, getMinutes(now) + TokenMinutes)]

\* GET /centres: res.json({ hasLicense: !!license, centres })
CentresAnswer(r, license) ==
  LinkRespond(r, 200, IF license.found THEN "hasLicense: true" ELSE "hasLicense: false")

\* POST /checkout: the 400 of a user who holds a license, or on to
\* stripe.checkout.sessions.create
CheckoutLicense(r, license) ==
  IF license.found
  THEN LinkRespond([r EXCEPT !.expiresAt = license.expires_at], 400,
                   "You already have an active license")
  ELSE [r EXCEPT !.pc = "create"]

\* the handler of r goes on from await hasActiveLicense(userId)
AfterLicense(r, license, log) ==
  LET r2 == [r EXCEPT !.licensed = license.found, !.permanent = license.is_permanent,
                      !.licenseAt = now]
  IN  CASE r.kind = "license-status" -> LicenseStatusAnswer([r2 EXCEPT !.err = log], license)
        [] r.kind = "generate-link" -> GenerateLinkLicense(r2, license)
        [] r.kind = "centres" -> CentresAnswer([r2 EXCEPT !.err = log], license)
        [] r.kind = "checkout" -> CheckoutLicense([r2 EXCEPT !.err = log], license)
        [] OTHER -> GenerateTokenLicense(r2, license)

\* await hasActiveLicense(userId): for a caller on the allow-list the function
\* returns before it sends a query, and the handler runs on in the same turn
\* of the event loop; any other caller waits for the filtered query, and so
\* does every caller of POST /checkout, whose hasActiveLicense has no allow-list
AwaitLicense(r) ==
  IF r.kind # "checkout" /\ r.caller \in AdminUserIds
  THEN AfterLicense(r, hasActiveLicense(r.caller, "ok", "ok"), "none")
  ELSE [r EXCEPT !.pc = "license"]

\* the endpoints of this section that call hasActiveLicense
LicensedKinds ==
  {"license-status", "generate-link", "generate-naas-token", "generate-tallaght-token",
   "centres", "checkout"}

\* the outcomes of the filtered query: it answers, it fails for the missing
\* is_active column, or it fails otherwise
LicenseOutcomes == QueryOutcomes \cup {"is_active missing"}

\* the store answers the is_active-filtered query of hasActiveLicense
LicenseQuery(r, q, limit) ==
  /\ BagIn(r, reqs) /\ r.kind \in LicensedKinds /\ r.pc = "license"
  /\ LET r2 == IF q = "is_active missing"
               THEN [r EXCEPT !.pc = "license-retry"]
               ELSE AfterLicense(r, LicenseFor(r, q, q), LicenseLogFor(r, q, q))
     IN  Room(r2, limit) /\ LinkContinue(r, r2)
  /\ UNCHANGED <<route_licenses, now, envVars, moreVars, linkVars>>

\* the store answers the query without the is_active filter
LicenseRetry(r, q, limit) ==
  /\ BagIn(r, reqs) /\ r.kind \in LicensedKinds /\ r.pc = "license-retry"
  /\ LET r2 == AfterLicense(r, LicenseFor(r, "is_active missing", q),
                            LicenseLogFor(r, "is_active missing", q))
     IN  Room(r2, limit) /\ LinkContinue(r, r2)
  /\ UNCHANGED <<route_licenses, now, envVars, moreVars, linkVars>>

----------------------------------------------------------------------------
(* GET /license-status *)

LicenseStatus(userId) ==
  /\ LinkArrive(AwaitLicense([NoLinkReq EXCEPT !.kind = "license-status",
                                               !.caller = userId]),
                LinkLimit)
  /\ UNCHANGED <<route_licenses, now, envVars, moreVars, linkVars>>

----------------------------------------------------------------------------
(* POST /generate-link *)

\* the field check, and the call of hasActiveLicense
GenerateLink(userId, centreName, routeNumber, limit) ==
  /\ LET r == [NoLinkReq EXCEPT !.kind = "generate-link", !.caller = userId,
                                !.centre = centreName, !.route = routeNumber]
     IN  LinkArrive(IF FalsyString(centreName) \/ FalsyNumber(routeNumber)
                    THEN LinkRefuse(r, 400, "Centre name and route number required")
                    ELSE AwaitLicense(r),
                    limit)
  /\ UNCHANGED <<route_licenses, now, envVars, moreVars, linkVars>>

\* getLinkExpiryHours, which logs the read that failed, and the expiry computed
\* from its answer
GenerateLinkSettings(r, q) ==
  /\ BagIn(r, reqs) /\ r.kind = "generate-link" /\ r.pc = "settings"
  /\ LinkContinue(r, [r EXCEPT !.pc = "insert", !.at = now,
                           !.err = IF q = "ok" THEN "none" ELSE "settings unread",
                           !.expiresAt = setHours(now, getHours(now) + getLinkExpiryHours(q))])
  /\ UNCHANGED <<route_licenses, now, envVars, moreVars, linkVars>>

\* linkToken = randomUUID(), and INSERT INTO route_links ... RETURNING
\* link_token, expires_at, which the UNIQUE constraint on link_token may reject
GenerateLinkInsert(r, q, linkToken) ==
  /\ BagIn(r, reqs) /\ r.kind = "generate-link" /\ r.pc = "insert"
  /\ IF q # "ok"
     THEN /\ LinkContinue(r, LinkFail(r, q, 500, "Failed to generate link"))
          /\ UNCHANGED route_links
     ELSE IF TokenTaken(LinksOfToken(linkToken))
     THEN /\ LinkContinue(r, LinkFail(r, "unique", 500, "Failed to generate link"))
          /\ UNCHANGED route_links
     ELSE /\ route_links' = Append(route_links,
                LinkRow(r.caller, r.centre, r.route, linkToken, r.expiresAt))
          /\ LinkContinue(r, LinkRespond([r EXCEPT !.token = linkToken, !.changed = TRUE],
                                     200, "linkToken"))
  /\ UNCHANGED <<route_licenses, now, envVars, moreVars, naas_access_tokens, route_settings, handed>>

----------------------------------------------------------------------------
(* POST /generate-naas-token and POST /generate-tallaght-token: the same
   handler twice, both on the naas_access_tokens table *)

MintKind(dataset) ==
  IF dataset = "naas" THEN "generate-naas-token" ELSE "generate-tallaght-token"

TokenMintKinds == {MintKind(dataset) : dataset \in Datasets}

\* the call of hasActiveLicense
GenerateToken(dataset, userId, limit) ==
  /\ LinkArrive(AwaitLicense([NoLinkReq EXCEPT !.kind = MintKind(dataset),
                                               !.caller = userId]),
                limit)
  /\ UNCHANGED <<route_licenses, now, envVars, moreVars, linkVars>>

\* INSERT INTO naas_access_tokens of the accessToken = randomUUID() the
\* handler drew, which the UNIQUE constraint on access_token may reject; the
\* answer hands the token to the client
GenerateTokenInsert(r, q, accessToken) ==
  /\ BagIn(r, reqs) /\ r.kind \in TokenMintKinds /\ r.pc = "insert"
  /\ IF q # "ok"
     THEN /\ LinkContinue(r, LinkFail(r, q, 500, "Failed to generate access token"))
          /\ UNCHANGED <<naas_access_tokens, handed>>
     ELSE IF TokenTaken(TokensOfToken(accessToken))
     THEN /\ LinkContinue(r, LinkFail(r, "unique", 500, "Failed to generate access token"))
          /\ UNCHANGED <<naas_access_tokens, handed>>
     ELSE /\ naas_access_tokens' = Append(naas_access_tokens,
                TokenRow(r.caller, accessToken, r.expiresAt))
          /\ handed' = handed \cup {<<accessToken, r.kind>>}
          /\ LinkContinue(r, LinkRespond([r EXCEPT !.token = accessToken, !.changed = TRUE],
                                     200, "accessToken"))
  /\ UNCHANGED <<route_licenses, now, envVars, moreVars, route_links, route_settings>>

----------------------------------------------------------------------------
(* GET /validate-link/:token *)

\* the request, up to the SELECT
ValidateLink(userId, token, limit) ==
  /\ LinkArrive([NoLinkReq EXCEPT !.kind = "validate-link", !.caller = userId,
                                  !.token = token, !.pc = "select"],
                limit)
  /\ UNCHANGED <<route_licenses, now, envVars, moreVars, linkVars>>

\* the SELECT scoped to the caller, and the expiry check
ValidateLinkSelect(r, q) ==
  /\ BagIn(r, reqs) /\ r.kind = "validate-link" /\ r.pc = "select"
  /\ LET rows == LinksOfTokenAndUser(r.token, r.caller)
     IN  LinkContinue(r,
           IF q # "ok"
           THEN LinkFail(r, q, 500, "valid: false, Failed to validate link")
           ELSE IF rows = {}
           THEN LinkRefuse(r, 200, "valid: false, Link not found")
           ELSE LET link == route_links[CHOOSE k \in rows : TRUE]
                IN  IF Expired(link.expires_at)
                    THEN LinkRefuse(r, 200, "valid: false, Link has expired")
                    ELSE [r EXCEPT !.pc = "update", !.centre = link.centre_name,
                                   !.route = link.route_number, !.at = now,
                                   !.is_used = link.is_used,
                                   !.expiresAt = link.expires_at])
  /\ UNCHANGED <<route_licenses, now, envVars, moreVars, linkVars>>

\* UPDATE route_links SET last_accessed_at = NOW(), is_used = true WHERE link_token = $1
ValidateLinkUpdate(r, q) ==
  /\ BagIn(r, reqs) /\ r.kind = "validate-link" /\ r.pc = "update"
  /\ IF q # "ok"
     THEN /\ LinkContinue(r, LinkFail(r, q, 500, "valid: false, Failed to validate link"))
          /\ UNCHANGED route_links
     ELSE /\ route_links' = MarkUsed(route_links, LinksOfToken(r.token))
          /\ LinkContinue(r, LinkRespond([r EXCEPT !.changed = TRUE], 200, "valid: true"))
  /\ UNCHANGED <<route_licenses, now, envVars, moreVars, naas_access_tokens, route_settings, handed>>

----------------------------------------------------------------------------
(* GET /naas-data/:token and GET /naas-route/:token/:routeId, and the same
   handlers for tallaght: they differ in the data file they load *)

DataKind(dataset) == IF dataset = "naas" THEN "naas-data" ELSE "tallaght-data"

RouteKind(dataset) == IF dataset = "naas" THEN "naas-route" ELSE "tallaght-route"

DataKinds == {DataKind(dataset) : dataset \in Datasets}

RouteKinds == {RouteKind(dataset) : dataset \in Datasets}

\* readFileSync and JSON.parse of the data file throw
UnreadFile == [read |-> FALSE, array |-> FALSE, ids |-> {}]

\* they return a value without a routes array, so that naasData.routes.map
\* and naasData.routes.find throw a TypeError
NoRoutesFile == [read |-> TRUE, array |-> FALSE, ids |-> {}]

\* they return an object whose routes array holds the routes with these ids
RoutesFile(ids) == [read |-> TRUE, array |-> TRUE, ids |-> ids]

\* the file that holds route 1
ServedFile == RoutesFile({1})

\* what the load of the data file gives a handler: the file is unreadable, or
\* it has no routes array, an empty one, or one with route 1
FileOutcomes == {UnreadFile, NoRoutesFile, RoutesFile({}), ServedFile}

FindRouteAny(ids, routeId) == TRUE

\* naasData.routes.find(r => r.id === parseInt(routeId)) finds a route
FindRoute(ids, routeId) == routeId \in ids

\* the request, up to the SELECT
NaasData(dataset, userId, token, limit) ==
  /\ LinkArrive([NoLinkReq EXCEPT !.kind = DataKind(dataset), !.caller = userId,
                                  !.token = token, !.pc = "select"],
                limit)
  /\ UNCHANGED <<route_licenses, now, envVars, moreVars, linkVars>>

\* the SELECT by token, the owner check, the expiry check, the load of the
\* data file, f being what the load gives, and naasData.routes.map, which is
\* outside the try block of the load
NaasDataSelect(r, q, f) ==
  /\ BagIn(r, reqs) /\ r.kind \in DataKinds /\ r.pc = "select"
  /\ LET rows == TokensOfToken(r.token)
     IN  LinkContinue(r,
           IF q # "ok"
           THEN LinkFail(r, q, 500, "Failed to get route data")
           ELSE IF rows = {}
           THEN LinkRefuse(r, 404, "Invalid access token")
           ELSE LET tokenData == naas_access_tokens[CHOOSE k \in rows : TRUE]
                IN  IF tokenData.user_id # r.caller
                    THEN LinkRefuse(r, 403, "Token does not belong to this user")
                    ELSE IF Expired(tokenData.expires_at)
                    THEN LinkRefuse(r, 403, "Access token has expired")
                    ELSE IF ~f.read
                    THEN LinkFail(r, "data file unread", 500, "Failed to load route data")
                    ELSE IF ~f.array
                    THEN LinkFail(r, "no routes array", 500, "Failed to get route data")
                    ELSE [r EXCEPT !.pc = "update", !.at = now,
                                   !.is_used = tokenData.is_used,
                                   !.expiresAt = tokenData.expires_at])
  /\ UNCHANGED <<route_licenses, now, envVars, moreVars, linkVars>>

\* UPDATE naas_access_tokens SET last_accessed_at = NOW(), is_used = true
NaasDataUpdate(r, q) ==
  /\ BagIn(r, reqs) /\ r.kind \in DataKinds /\ r.pc = "update"
  /\ IF q # "ok"
     THEN /\ LinkContinue(r, LinkFail(r, q, 500, "Failed to get route data"))
          /\ UNCHANGED naas_access_tokens
     ELSE /\ naas_access_tokens' = MarkUsed(naas_access_tokens, TokensOfToken(r.token))
          /\ LinkContinue(r, LinkRespond([r EXCEPT !.changed = TRUE], 200, "routes"))
  /\ UNCHANGED <<route_licenses, now, envVars, moreVars, route_links, route_settings, handed>>

\* the proxy endpoint: no auth, the token is the credential; the request, up
\* to the SELECT
NaasRoute(dataset, token, routeId, limit) ==
  /\ LinkArrive([NoLinkReq EXCEPT !.kind = RouteKind(dataset), !.token = token,
                                  !.route = parseInt(routeId), !.pc = "select"],
                limit)
  /\ UNCHANGED <<route_licenses, now, envVars, moreVars, linkVars>>

\* the SELECT by token, the expiry check, the load of the data file, f being
\* what the load gives, and routes.find(r => r.id === parseInt(routeId)),
\* which is outside the try block of the load
NaasRouteSelect(r, q, f) ==
  /\ BagIn(r, reqs) /\ r.kind \in RouteKinds /\ r.pc = "select"
  /\ LET rows == TokensOfToken(r.token)
     IN  LinkContinue(r,
           IF q # "ok"
           THEN LinkFail(r, q, 500, "Failed to access route")
           ELSE IF rows = {}
           THEN LinkRefuse(r, 404, "Invalid access token")
           ELSE LET tokenData == naas_access_tokens[CHOOSE k \in rows : TRUE]
                IN  IF Expired(tokenData.expires_at)
                    THEN LinkRefuse(r, 403, "Access token has expired")
                    ELSE IF ~f.read
                    THEN LinkFail(r, "data file unread", 500, "Failed to load route data")
                    ELSE IF ~f.array
                    THEN LinkFail(r, "no routes array", 500, "Failed to access route")
                    ELSE IF ~FindRoute(f.ids, r.route)
                    THEN LinkRefuse([r EXCEPT !.routes = f.ids], 404, "Route not found")
                    ELSE LinkRespond([r EXCEPT !.at = now, !.routes = f.ids,
                                               !.expiresAt = tokenData.expires_at],
                                     302, "redirect"))
  /\ UNCHANGED <<route_licenses, now, envVars, moreVars, linkVars>>

----------------------------------------------------------------------------
(* The link and token endpoints as a system *)

\* the wall clock moves on by step, between requests or while handlers are
\* suspended
LinkTickBy(step) ==
  /\ \E t \in StartTimes : now + step <= t + MaxLinkTicks * step
  /\ now' = now + step
  /\ out' = NoLinkReq
  /\ UNCHANGED <<route_licenses, reqs, envVars, moreVars, linkVars>>

LinkTick == LinkTickBy(LinkTickStep)

\* the license confirm-payment created three months before it runs out
LicenseBoughtAt == MakeTime(2025, 7, 30, 660)

\* the license of the allow-listed user, which ran out before the start
AdminLicenseBoughtAt == MakeTime(2025, 4, 30, 660)

\* the row confirm-payment inserted at boughtAt
BoughtLicense(userId, ref, boughtAt) ==
  [user_id |-> userId, stripe_payment_intent_id |-> ref,
   stripe_checkout_session_id |-> Null, purchased_at |-> boughtAt,
   expires_at |-> ConfirmExpiresAt(boughtAt), is_active |-> TRUE]

\* user 1 holds a license that runs out an hour after the start; the
\* allow-listed user holds no row, or one that ran out
LinkLicenseTables ==
  {<<BoughtLicense(1, "pi_1", LicenseBoughtAt)>>,
   <<BoughtLicense(1, "pi_1", LicenseBoughtAt), BoughtLicense(2, "pi_2", AdminLicenseBoughtAt)>>}

LinkInit ==
  /\ route_licenses \in LinkLicenseTables
  /\ reqs = EmptyBag
  /\ out = NoLinkReq
  /\ now \in StartTimes
  /\ webhookSecret = TRUE
  /\ sending = TRUE
  /\ route_links = <<>>
  /\ naas_access_tokens = <<>>
  /\ handed = {}
  /\ PayIdle /\ ChatIdle
  /\ route_settings = DefaultLinkExpiryHours

\* the tokens a request presents: one no row holds, and those of the rows
PresentedTokens == {GuessedToken} \cup (1..MaxRows)

\* the bodies of generate-link with a route number: with and without a centre
LicenseBodies == {b \in GenerateLinkBodies : b[2] = 3}

\* the callers of the license check, at license-status and at the minting
\* endpoints, under every answer of the store
LinkNext ==
  \/ \E userId \in LinkUsers : LicenseStatus(userId)
  \/ \E userId \in LinkUsers, b \in LicenseBodies :
       GenerateLink(userId, b[1], b[2], LinkLimit)
  \/ \E userId \in LinkUsers : GenerateToken("naas", userId, LinkLimit)
  \/ \E r \in InFlight, q \in LicenseOutcomes : LicenseQuery(r, q, LinkLimit)
  \/ \E r \in InFlight, q \in QueryOutcomes : LicenseRetry(r, q, LinkLimit)
  \/ \E r \in InFlight : GenerateLinkSettings(r, "ok")
  \/ \E r \in InFlight, q \in QueryOutcomes :
       GenerateLinkInsert(r, q, FreshToken(route_links))
  \/ \E r \in InFlight, q \in QueryOutcomes :
       GenerateTokenInsert(r, q, FreshToken(naas_access_tokens))
  \/ LinkTick

LinkSpec == LinkInit /\ [][LinkNext]_vars

----------------------------------------------------------------------------
(* GET /validate-link: the links of two users, validated by their owner or
   by the other user *)

\* the licensed user and the allow-listed one
LinkOwners == LinkUsers \cap {1, 2}

\* the links minted at the start, each as (owner, route number, token): two
\* of the licensed user and one of the allow-listed user
ValidateLinks == <<<<1, 3, 1>>, <<2, 3, 2>>, <<1, 5, 3>>>>

ValidateInit ==
  /\ route_licenses \in LinkLicenseTables
  /\ reqs = EmptyBag
  /\ out = NoLinkReq
  /\ now \in StartTimes
  /\ webhookSecret = TRUE
  /\ sending = TRUE
  /\ route_links
       = [k \in DOMAIN ValidateLinks |->
            LinkRow(ValidateLinks[k][1], "Naas", ValidateLinks[k][2], ValidateLinks[k][3],
                    setHours(now, getHours(now) + DefaultLinkExpiryHours))]
  /\ naas_access_tokens = <<>>
  /\ handed = {}
  /\ PayIdle /\ ChatIdle
  /\ route_settings = DefaultLinkExpiryHours

\* the tokens a request presents: one no row holds, and those of the links
ValidateTokens == {GuessedToken} \cup {ValidateLinks[k][3] : k \in DOMAIN ValidateLinks}

ValidateNext ==
  \/ \E userId \in LinkOwners, token \in ValidateTokens :
       ValidateLink(userId, token, LinkLimit)
  \/ \E r \in InFlight, q \in QueryOutcomes : ValidateLinkSelect(r, q)
  \/ \E r \in InFlight, q \in QueryOutcomes : ValidateLinkUpdate(r, q)
  \/ LinkTick

ValidateSpec == ValidateInit /\ [][ValidateNext]_vars

----------------------------------------------------------------------------
(* The life of the links and the access tokens of the licensed user: minted,
   validated or redeemed, run out *)

\* two handlers at a time, for the request that is answered while another
\* is suspended before its UPDATE
LifeLimit == [reqs |-> MaxLifeReqs, rows |-> MaxRows]

\* user 1 holds the link and the access token minted at the start
LifeInit ==
  /\ route_licenses = <<BoughtLicense(1, "pi_1", LicenseBoughtAt)>>
  /\ reqs = EmptyBag
  /\ out = NoLinkReq
  /\ now \in StartTimes
  /\ webhookSecret = TRUE
  /\ sending = TRUE
  /\ route_links
       = <<LinkRow(1, "Naas", 3, 1,
                   setHours(now, getHours(now) + DefaultLinkExpiryHours))>>
  /\ naas_access_tokens
       = <<TokenRow(1, 1, setMinutes(now, getMinutes(now) + TokenMinutes))>>
  /\ handed = {<<1, MintKind("naas")>>}
  /\ PayIdle /\ ChatIdle
  /\ route_settings = DefaultLinkExpiryHours

\* the tokens of the rows user 1 holds
HeldTokens == {1}

LifeNext ==
  \/ \E token \in HeldTokens : ValidateLink(1, token, LifeLimit)
  \/ \E r \in InFlight : ValidateLinkSelect(r, "ok")
  \/ \E r \in InFlight, q \in QueryOutcomes : ValidateLinkUpdate(r, q)
  \/ \E token \in HeldTokens : NaasData("naas", 1, token, LifeLimit)
  \/ \E r \in InFlight : NaasDataSelect(r, "ok", ServedFile)
  \/ \E r \in InFlight, q \in QueryOutcomes : NaasDataUpdate(r, q)
  \/ \E token \in HeldTokens : NaasRoute("naas", token, JsString(<<"1">>), LifeLimit)
  \/ \E r \in InFlight : NaasRouteSelect(r, "ok", ServedFile)
  \/ LinkTick

LifeSpec == LifeInit /\ [][LifeNext]_vars

----------------------------------------------------------------------------
(* POST /generate-link over the states of route_settings *)

\* the row of route_settings is missing, or holds 0, 1 or the seeded value
SettingsInit ==
  /\ route_licenses \in LinkLicenseTables
  /\ reqs = EmptyBag
  /\ out = NoLinkReq
  /\ now \in StartTimes
  /\ webhookSecret = TRUE
  /\ sending = TRUE
  /\ route_links = <<>>
  /\ naas_access_tokens = <<>>
  /\ handed = {}
  /\ PayIdle /\ ChatIdle
  /\ route_settings \in SettingsValues

SettingsNext ==
  \/ \E userId \in LinkUsers, b \in GenerateLinkBodies :
       GenerateLink(userId, b[1], b[2], LinkLimit)
  \/ \E r \in InFlight, q \in QueryOutcomes : LicenseQuery(r, q, LinkLimit)
  \/ \E r \in InFlight, q \in QueryOutcomes : GenerateLinkSettings(r, q)
  \/ \E r \in InFlight, q \in QueryOutcomes :
       GenerateLinkInsert(r, q, FreshToken(route_links))
  \/ LinkTick

SettingsSpec == SettingsInit /\ [][SettingsNext]_vars

----------------------------------------------------------------------------
(* The minting endpoints under concurrent requests *)

MintLimit == [reqs |-> MaxMintReqs, rows |-> MaxMints]

\* the values randomUUID() returns: few, so that two calls can return the same
MintTokens == 1..MaxMints

MintInit ==
  /\ route_licenses \in LinkLicenseTables
  /\ reqs = EmptyBag
  /\ out = NoLinkReq
  /\ now \in StartTimes
  /\ webhookSecret = TRUE
  /\ sending = TRUE
  /\ route_links = <<>>
  /\ naas_access_tokens = <<>>
  /\ handed = {}
  /\ PayIdle /\ ChatIdle
  /\ route_settings = DefaultLinkExpiryHours

MintNext ==
  \/ \E userId \in LinkOwners : GenerateLink(userId, "Naas", 3, MintLimit)
  \/ \E dataset \in Datasets, userId \in LinkOwners :
       GenerateToken(dataset, userId, MintLimit)
  \/ \E r \in InFlight : LicenseQuery(r, "ok", MintLimit)
  \/ \E r \in InFlight : GenerateLinkSettings(r, "ok")
  \/ \E r \in InFlight, q \in QueryOutcomes, linkToken \in MintTokens :
       GenerateLinkInsert(r, q, linkToken)
  \/ \E r \in InFlight, q \in QueryOutcomes, accessToken \in MintTokens :
       GenerateTokenInsert(r, q, accessToken)

MintSpec == MintInit /\ [][MintNext]_vars

----------------------------------------------------------------------------
(* The access-token endpoints of the two datasets *)

DatasetNext ==
  \/ \E dataset \in Datasets : GenerateToken(dataset, 1, LinkLimit)
  \/ \E r \in InFlight : LicenseQuery(r, "ok", LinkLimit)
  \/ \E r \in InFlight : GenerateTokenInsert(r, "ok", FreshToken(naas_access_tokens))
  \/ \E dataset \in Datasets, token \in PresentedTokens : NaasData(dataset, 1, token, LinkLimit)
  \/ \E r \in InFlight : NaasDataSelect(r, "ok", ServedFile)
  \/ \E r \in InFlight : NaasDataUpdate(r, "ok")
  \/ \E dataset \in Datasets, token \in PresentedTokens, routeId \in RouteIds :
       NaasRoute(dataset, token, routeId, LinkLimit)
  \/ \E r \in InFlight, q \in QueryOutcomes, f \in FileOutcomes : NaasRouteSelect(r, q, f)
  \/ LinkTick

\* user 1 holds a license, and no one else a row
DatasetInit == MintInit /\ Len(route_licenses) = 1

DatasetSpec == DatasetInit /\ [][DatasetNext]_vars

----------------------------------------------------------------------------
(* Links and tokens that outlive the license they were minted under *)

\* the license of user 1 runs out ten minutes after the start
LapseLicenseBoughtAt == MakeTime(2025, 7, 30, 610)

\* the clock moves by twenty minutes: past the end of that license, not past
\* the end of a token
LapseTickStep == TokenMinutes - 10

LapseTick == LinkTickBy(LapseTickStep)

\* user 1 holds the link and the access token minted at the start, under the
\* license that is about to run out
LapseInit ==
  /\ route_licenses = <<BoughtLicense(1, "pi_1", LapseLicenseBoughtAt)>>
  /\ reqs = EmptyBag
  /\ out = NoLinkReq
  /\ now \in StartTimes
  /\ webhookSecret = TRUE
  /\ sending = TRUE
  /\ route_links
       = <<LinkRow(1, "Naas", 3, 1,
                   setHours(now, getHours(now) + DefaultLinkExpiryHours))>>
  /\ naas_access_tokens
       = <<TokenRow(1, 1, setMinutes(now, getMinutes(now) + TokenMinutes))>>
  /\ handed = {<<1, MintKind("naas")>>}
  /\ PayIdle /\ ChatIdle
  /\ route_settings = DefaultLinkExpiryHours

\* the license of user 1 has run out
Lapsed == \A k \in DOMAIN route_licenses : route_licenses[k].expires_at <= now

\* the owner redeems what they hold, before and after the end of the license,
\* and asks for a new link or token once it has run out
LapseNext ==
  \/ Lapsed /\ GenerateLink(1, "Naas", 3, LinkLimit)
  \/ Lapsed /\ GenerateToken("naas", 1, LinkLimit)
  \/ \E r \in InFlight, q \in QueryOutcomes : LicenseQuery(r, q, LinkLimit)
  \/ \E token \in PresentedTokens : ValidateLink(1, token, LinkLimit)
  \/ \E r \in InFlight, q \in QueryOutcomes : ValidateLinkSelect(r, q)
  \/ \E r \in InFlight, q \in QueryOutcomes : ValidateLinkUpdate(r, q)
  \/ \E token \in PresentedTokens : NaasData("naas", 1, token, LinkLimit)
  \/ \E r \in InFlight, q \in QueryOutcomes, f \in FileOutcomes : NaasDataSelect(r, q, f)
  \/ \E r \in InFlight, q \in QueryOutcomes : NaasDataUpdate(r, q)
  \/ \E token \in PresentedTokens, routeId \in RouteIds :
       NaasRoute("naas", token, routeId, LinkLimit)
  \/ \E r \in InFlight, q \in QueryOutcomes, f \in FileOutcomes : NaasRouteSelect(r, q, f)
  \/ LapseTick

LapseSpec == LapseInit /\ [][LapseNext]_vars

----------------------------------------------------------------------------
(* POST /create-payment-intent *)

MaxIntents == 1
MaxPayReqs == 1

NoPayReq ==
  [kind |-> "none", pc |-> "idle",
   caller |-> NoUser,          \* req.user.user_id
   amount |-> JsUndefined,     \* req.body.amount
   requested |-> NullAmount,   \* requestedAmount
   price |-> 0,
   checked |-> FALSE,          \* hasActiveLicense was called
   licensed |-> FALSE,         \* hasActiveLicense returned a license to this handler
   created |-> FALSE,          \* the gateway created the intent of this handler
   err |-> "none",
   status |-> 0, body |-> ""]

PayRespond(r, status, body) == [r EXCEPT !.pc = "done", !.status = status, !.body = body]

PayFail(r, err, status, body) == [PayRespond(r, status, body) EXCEPT !.err = err]

\* a request arrives: its handler answers at once with r, or suspends as r
\* at its first await
PayArrive(r) ==
  IF r.pc = "done"
  THEN /\ reqs' = reqs
       /\ out' = r
  ELSE /\ BagCardinality(reqs) < MaxPayReqs
       /\ Len(paymentIntents) + BagCardinality(reqs) < MaxIntents
       /\ reqs' = reqs (+) SetToBag({r})
       /\ out' = NoPayReq

\* the handler of r moves on: it suspends again as r2, or it answers r2
PayContinue(r, r2) ==
  IF r2.pc = "done"
  THEN /\ reqs' = reqs (-) SetToBag({r})
       /\ out' = r2
  ELSE /\ reqs' = (reqs (-) SetToBag({r})) (+) SetToBag({r2})
       /\ out' = NoPayReq

\* the bodies of the requests: no amount, numbers, and strings
AmountInputs ==
  {JsUndefined, JsNumber(0), JsNumber(-5), JsNumber(299), JsNumber(1399),
   JsString(<<"0">>), JsString(<<"a", "b", "c">>), JsString(<<"2", "9", "9">>),
   JsString(<<"1", "2", "a">>), JsString(<<>>),
   JsString(<<"0", "x", "1", "A">>), JsString(<<"\t", "5">>)}

\* parseInt(process.env.ROUTES_LICENSE_PRICE || '1399'), the variable not being set
DefaultPrice == parseInt(JsString(<<"1", "3", "9", "9">>))

\* req.body.amount ? parseInt(req.body.amount) : null
RequestedAmount(amount) == IF Truthy(amount) THEN parseInt(amount) ELSE NullAmount

\* requestedAmount of each body a request may carry
RequestedAmounts == [amount \in AmountInputs |-> RequestedAmount(amount)]

\* requestedAmount || parseInt(process.env.ROUTES_LICENSE_PRICE || '1399')
Price(requestedAmount) ==
  IF FalsyAmount(requestedAmount) THEN DefaultPrice ELSE requestedAmount

\* if (!requestedAmount || requestedAmount >= 1399)
BundleCheck(requestedAmount) ==
  FalsyAmount(requestedAmount) \/ requestedAmount >= BundleThreshold

\* price >= 1399 ? 'bundle' : 'single'
PurchaseTypeOfPrice(price) == IF price >= BundleThreshold THEN "bundle" ELSE "single"

\* the handler goes on from await hasActiveLicense(userId): the 400, or on to
\* stripe.paymentIntents.create
PayAfterLicense(r, license, log) ==
  LET r2 == [r EXCEPT !.licensed = license.found, !.err = log]
  IN  IF license.found
      THEN PayRespond(r2, 400, "You already have an active license")
      ELSE [r2 EXCEPT !.pc = "create"]

\* await hasActiveLicense(userId): for a caller on the allow-list the function
\* returns before it sends a query, and the handler runs on in the same turn
\* of the event loop; any other caller waits for the filtered query
PayAwaitLicense(r) ==
  IF r.caller \in AdminUserIds
  THEN PayAfterLicense(r, hasActiveLicense(r.caller, "ok", "ok"), "none")
  ELSE [r EXCEPT !.pc = "license"]

\* the request, up to its first await: the client, the amount, the price and,
\* for a bundle, the call of hasActiveLicense
CreatePaymentIntent(userId, amount) ==
  /\ LET requestedAmount == RequestedAmounts[amount]
         price == Price(requestedAmount)
         r == [NoPayReq EXCEPT !.kind = "create-payment-intent", !.caller = userId,
                               !.amount = amount]
         r1 == [r EXCEPT !.requested = requestedAmount, !.price = price]
     IN  IF ~stripe
         THEN PayArrive(PayRespond(r, 500, "Payment system not configured"))
         ELSE IF isNaN(price) \/ price <= 0
         THEN PayArrive(PayRespond(r1, 400, "Invalid amount specified"))
         ELSE IF BundleCheck(requestedAmount)
         THEN PayArrive(PayAwaitLicense([r1 EXCEPT !.checked = TRUE]))
         ELSE PayArrive([r1 EXCEPT !.pc = "create"])
  /\ UNCHANGED <<route_licenses, now, envVars, linkVars, moreVars>>

\* the store answers the is_active-filtered query of hasActiveLicense
PayLicenseQuery(r, q) ==
  /\ BagIn(r, reqs) /\ r.kind = "create-payment-intent" /\ r.pc = "license"
  /\ PayContinue(r, IF q = "is_active missing"
                    THEN [r EXCEPT !.pc = "license-retry"]
                    ELSE PayAfterLicense(r, hasActiveLicense(r.caller, q, q),
                                         LicenseQueryLog(r.caller, q, q)))
  /\ UNCHANGED <<route_licenses, now, envVars, linkVars, moreVars>>

\* the store answers the query without the is_active filter
PayLicenseRetry(r, q) ==
  /\ BagIn(r, reqs) /\ r.kind = "create-payment-intent" /\ r.pc = "license-retry"
  /\ PayContinue(r, PayAfterLicense(r, hasActiveLicense(r.caller, "is_active missing", q),
                                    LicenseQueryLog(r.caller, "is_active missing", q)))
  /\ UNCHANGED <<route_licenses, now, envVars, linkVars, moreVars>>

\* what stripe.paymentIntents.create does: it throws, or it creates the intent
\* and returns it, with a client secret or without a usable one
CreateOutcomes == {"ok", "error", "no client_secret"}

PaymentIntentOf(r) ==
  [user |-> r.caller, amount |-> r.price, purchase_type |-> PurchaseTypeOfPrice(r.price)]

CreatePaymentIntentCreate(r, g) ==
  /\ BagIn(r, reqs) /\ r.kind = "create-payment-intent" /\ r.pc = "create"
  /\ IF g = "error"
     THEN /\ PayContinue(r, PayFail(r, g, 500, "Failed to create payment intent"))
          /\ UNCHANGED paymentIntents
     ELSE /\ paymentIntents' = Append(paymentIntents, PaymentIntentOf(r))
          /\ PayContinue(r,
               IF g = "ok"
               THEN PayRespond([r EXCEPT !.created = TRUE], 200, "clientSecret")
               ELSE PayFail([r EXCEPT !.created = TRUE], g, 500,
                            "Failed to create payment intent"))
  /\ UNCHANGED <<route_licenses, now, envVars, linkVars, stripe, chatVars>>

\* the wall clock moves on, between requests or while handlers are suspended
PayTick ==
  /\ \E t \in StartTimes : now + LinkTickStep <= t + MaxLinkTicks * LinkTickStep
  /\ now' = now + LinkTickStep
  /\ out' = NoPayReq
  /\ UNCHANGED <<route_licenses, reqs, envVars, linkVars, moreVars>>

PayInit ==
  /\ route_licenses \in LinkLicenseTables
  /\ reqs = EmptyBag
  /\ out = NoPayReq
  /\ now \in StartTimes
  /\ webhookSecret = TRUE
  /\ sending = TRUE
  /\ route_links = <<>>
  /\ naas_access_tokens = <<>>
  /\ handed = {}
  /\ route_settings = DefaultLinkExpiryHours
  /\ stripe \in BOOLEAN
  /\ paymentIntents = <<>>
  /\ ChatIdle

PayNext ==
  \/ \E userId \in LinkUsers, amount \in AmountInputs : CreatePaymentIntent(userId, amount)
  \/ \E r \in InFlight, q \in LicenseOutcomes : PayLicenseQuery(r, q)
  \/ \E r \in InFlight, q \in QueryOutcomes : PayLicenseRetry(r, q)
  \/ \E r \in InFlight, g \in CreateOutcomes : CreatePaymentIntentCreate(r, g)
  \/ PayTick

PaySpec == PayInit /\ [][PayNext]_vars

----------------------------------------------------------------------------
(* POST /chatbot/message and checkAndIncrementUsage (src/routes/chatbot.js) *)

MaxChatReqs == 2
MaxAsked == 2
MaxChatTicks == 1

MAX_QUESTIONS_PER_DAY == 8

\* the caller of the chatbot: every statement of checkAndIncrementUsage is keyed by
\* user_id, and the day that begins at midnight finds the user without a row
ChatUsers == {1}

\* new Date().toISOString().split('T')[0]: the UTC date, as <<year, month, day>>
toISODate(t) == <<getFullYear(t), getMonth(t) + 1, getDate(t)>>

UsageRow(userId, usageDate, questionCount) ==
  [user_id |-> userId, usage_date |-> usageDate, question_count |-> questionCount]

\* WHERE user_id = $1 AND usage_date = $2
UsageRows(table, userId, usageDate) ==
  {k \in DOMAIN table : table[k].user_id = userId /\ table[k].usage_date = usageDate}

\* UNIQUE(user_id, usage_date)
UsageTaken(table, userId, usageDate) == UsageRows(table, userId, usageDate) # {}

IncrementedFromRead(questionCount, currentCount) == currentCount + 1

\* SET question_count = question_count + 1
Incremented(questionCount, currentCount) == questionCount + 1

NoChatReq ==
  [kind |-> "none", pc |-> "idle",
   caller |-> NoUser,          \* req.user.user_id
   message |-> JsUndefined,    \* req.body.message
   history |-> JsUndefined,    \* req.body.conversationHistory
   today |-> <<0, 0, 0>>,
   current |-> 0,              \* currentCount
   allowed |-> FALSE,          \* usage.allowed
   remaining |-> 0,            \* usage.remaining
   llm |-> FALSE,              \* openai.chat.completions.create was called
   err |-> "none",
   status |-> 0, body |-> ""]

ChatRespond(r, status, body) == [r EXCEPT !.pc = "done", !.status = status, !.body = body]

ChatFail(r, err, status, body) == [ChatRespond(r, status, body) EXCEPT !.err = err]

\* the requests admitted are bounded: those that were allowed, and those in flight
ChatArrive(r) ==
  IF r.pc = "done"
  THEN /\ reqs' = reqs
       /\ out' = r
  ELSE /\ BagCardinality(reqs) < MaxChatReqs
       /\ BagCardinality(passed) + BagCardinality(reqs)
            < (MAX_QUESTIONS_PER_DAY - 1) + MaxAsked
       /\ reqs' = reqs (+) SetToBag({r})
       /\ out' = NoChatReq

ChatContinue(r, r2) ==
  IF r2.pc = "done"
  THEN /\ reqs' = reqs (-) SetToBag({r})
       /\ out' = r2
  ELSE /\ reqs' = (reqs (-) SetToBag({r})) (+) SetToBag({r2})
       /\ out' = NoChatReq

MessageInputs ==
  {JsUndefined, JsNumber(42), JsString(<<>>), JsString(<<" ">>), JsString(<<"h", "i">>)}

JsNull == [type |-> "null", num |-> 0, str |-> <<>>]

\* an array, whatever its elements
JsArray == [type |-> "array", num |-> 0, str |-> <<>>]

\* req.body.conversationHistory: absent, or null
HistoryInputs == {JsUndefined, JsNull}

\* const { conversationHistory = [] } = req.body: the default stands in for
\* undefined only
conversationHistory(v) == IF v = JsUndefined THEN JsArray ELSE v

\* [...v] spreads an array or a string, and throws a TypeError for another value
Iterable(v) == v.type \in {"array", "string"}

\* err.status of an error that has none
NoStatus == 0

\* the pieces of err.message the catch block looks for
Markers == {"OPENAI_API_KEY", "Invalid API key", "OpenAI"}

\* an error: its status, and its message as the set of the pieces the catch
\* block looks for that occur in it
Thrown(name, status, message) == [name |-> name, status |-> status, message |-> message]

NoError == Thrown("none", NoStatus, {})

\* an error of pool.query
StoreError(q) == Thrown(q, NoStatus, {})

\* ...conversationHistory of a value that is not iterable
NotIterable == Thrown("TypeError", NoStatus, {})

\* new Error('OPENAI_API_KEY is not set in environment variables')
KeyNotSet == Thrown("OPENAI_API_KEY is not set", NoStatus, {"OPENAI_API_KEY"})

\* new Error('Invalid API key format. Key should start with "sk-"')
InvalidKeyFormat == Thrown("Invalid API key format", NoStatus, {"Invalid API key"})

\* process.env.OPENAI_API_KEY when the handler reads it: unset, or a string
KeyInputs ==
  {JsUndefined, JsString(<<>>), JsString(<<" ">>), JsString(<<"S", "K", "-", "1">>),
   JsString(<<"s", "k", "-", "1">>), JsString(<<" ", "s", "k", "-", "1", "\n">>),
   JsString(<<"\"", "s", "k", "-", "1", "\"">>)}

RECURSIVE TrimStart(_)
TrimStart(s) ==
  IF Len(s) > 0 /\ Head(s) \in WhiteSpace THEN TrimStart(Tail(s)) ELSE s

RECURSIVE TrimEnd(_)
TrimEnd(s) ==
  IF Len(s) > 0 /\ s[Len(s)] \in WhiteSpace
  THEN TrimEnd(SubSeq(s, 1, Len(s) - 1)) ELSE s

\* s.trim()
Trim(s) == TrimEnd(TrimStart(s))

Quotes == {"\"", "'"}

\* s.replace(/^["']|["']$/g, ''): a quote at the start and a quote at the end
\* are removed, each whether or not the other is there
StripQuotes(s) ==
  LET t == IF Len(s) > 0 /\ Head(s) \in Quotes THEN Tail(s) ELSE s
  IN  IF Len(t) > 0 /\ t[Len(t)] \in Quotes THEN SubSeq(t, 1, Len(t) - 1) ELSE t

\* s.startsWith(prefix)
StartsWith(s, prefix) == Len(s) >= Len(prefix) /\ SubSeq(s, 1, Len(prefix)) = prefix

KeyPrefix == <<"s", "k", "-">>

\* the error getOpenAIClient throws, NoError when it returns a client
getOpenAIClient(key) ==
  IF ~Truthy(key) THEN KeyNotSet
  ELSE IF ~StartsWith(StripQuotes(Trim(key.str)), KeyPrefix) THEN InvalidKeyFormat
  ELSE NoError

\* getOpenAIClient of each value of the key, computed once
ClientErrors == [key \in KeyInputs |-> getOpenAIClient(key)]

\* the catch block of POST /message: the response to the error e
CatchBlock(r, e) ==
  IF "OPENAI_API_KEY" \in e.message
  THEN ChatFail(r, e.name, 503,
                "Chatbot service is not configured. OPENAI_API_KEY is missing.")
  ELSE IF e.status = 401 \/ "Invalid API key" \in e.message
  THEN ChatFail(r, e.name, 500,
                "Invalid API key. Please check your OpenAI API configuration.")
  ELSE IF e.status = 429
  THEN ChatFail(r, e.name, 429, "Rate limit exceeded. Please try again in a moment.")
  ELSE IF e.status = 500 \/ "OpenAI" \in e.message
  THEN ChatFail(r, e.name, 500, "OpenAI service error. Please try again later.")
  ELSE ChatFail(r, e.name, 500, "Failed to get chatbot response")

\* !message || typeof message !== 'string' || message.trim().length === 0
MessageMissing(message) ==
  ~Truthy(message) \/ message.type # "string" \/ TrimmedEmpty(message.str)

\* the validation of the message, and the start of checkAndIncrementUsage
MessageReceive(userId, message, history) ==
  /\ LET r == [NoChatReq EXCEPT !.kind = "message", !.caller = userId,
                                !.message = message, !.history = history]
     IN  IF MessageMissing(message)
         THEN ChatArrive(ChatRespond(r, 400,
                "Message is required and must be a non-empty string"))
         ELSE ChatArrive([r EXCEPT !.pc = "select", !.today = toISODate(now)])
  /\ UNCHANGED <<route_licenses, now, envVars, linkVars, moreVars>>

\* if (currentCount >= MAX_QUESTIONS_PER_DAY) return { allowed: false }, which
\* POST /message answers 429
QuotaCheck(r) ==
  IF r.current >= MAX_QUESTIONS_PER_DAY
  THEN ChatRespond(r, 429, "Daily question limit reached")
  ELSE [r EXCEPT !.pc = "update"]

\* SELECT question_count FROM chatbot_usage, and the check when the row exists
UsageSelect(r, q) ==
  /\ BagIn(r, reqs) /\ r.kind = "message" /\ r.pc = "select"
  /\ LET rows == UsageRows(chatbot_usage, r.caller, r.today)
     IN  ChatContinue(r,
           IF q # "ok"
           THEN CatchBlock(r, StoreError(q))
           ELSE IF rows # {}
           THEN QuotaCheck([r EXCEPT !.current =
                              chatbot_usage[CHOOSE k \in rows : TRUE].question_count])
           ELSE [r EXCEPT !.pc = "insert"])
  /\ UNCHANGED <<route_licenses, now, envVars, linkVars, moreVars>>

\* INSERT INTO chatbot_usage ... VALUES ($1, $2, 0), and the check
UsageInsert(r, q) ==
  /\ BagIn(r, reqs) /\ r.kind = "message" /\ r.pc = "insert"
  /\ IF q # "ok"
     THEN /\ ChatContinue(r, CatchBlock(r, StoreError(q)))
          /\ UNCHANGED chatbot_usage
     ELSE IF UsageTaken(chatbot_usage, r.caller, r.today)
     THEN /\ ChatContinue(r, CatchBlock(r, StoreError("unique")))
          /\ UNCHANGED chatbot_usage
     ELSE /\ chatbot_usage' = Append(chatbot_usage, UsageRow(r.caller, r.today, 0))
          /\ ChatContinue(r, QuotaCheck(r))
  /\ UNCHANGED <<route_licenses, now, envVars, linkVars, payVars, passed>>

\* UPDATE chatbot_usage SET question_count = question_count + 1, the return of
\* { allowed: true }, and the handler up to the call of the language model:
\* the test of process.env.OPENAI_API_KEY, whose value is key when the handler
\* reads it, the spread of conversationHistory, and getOpenAIClient
UsageUpdate(r, q, key) ==
  /\ BagIn(r, reqs) /\ r.kind = "message" /\ r.pc = "update"
  /\ IF q # "ok"
     THEN /\ ChatContinue(r, CatchBlock(r, StoreError(q)))
          /\ UNCHANGED chatVars
     ELSE LET rows == UsageRows(chatbot_usage, r.caller, r.today)
              r2 == [r EXCEPT !.allowed = TRUE,
                              !.remaining = MAX_QUESTIONS_PER_DAY - (r.current + 1)]
          IN  /\ chatbot_usage' =
                   [k \in DOMAIN chatbot_usage |->
                      IF k \in rows
                      THEN [chatbot_usage[k] EXCEPT !.question_count =
                              Incremented(chatbot_usage[k].question_count, r.current)]
                      ELSE chatbot_usage[k]]
              /\ passed' = passed (+) SetToBag({<<r.caller, r.today>>})
              /\ ChatContinue(r,
                   IF ~Truthy(key)
                   THEN ChatRespond(r2, 500, "Chatbot service is not configured")
                   ELSE IF ~Iterable(conversationHistory(r2.history))
                   THEN CatchBlock(r2, NotIterable)
                   ELSE IF ClientErrors[key] # NoError
                   THEN CatchBlock(r2, ClientErrors[key])
                   ELSE [r2 EXCEPT !.pc = "llm"])
  /\ UNCHANGED <<route_licenses, now, envVars, linkVars, payVars>>

\* err.status of the errors of the language model
CompletionStatuses == {NoStatus, 401, 429, 500, 503}

\* the pieces that occur in the message of an error of the language model:
\* none, one of them, or all
CompletionMessages == {{}, Markers} \cup {{m} : m \in Markers}

\* what openai.chat.completions.create does: it answers, or it throws an error
\* that has a status or none, and a message
CompletionOutcomes ==
  {NoError} \cup {Thrown("completion", status, message) :
                    status \in CompletionStatuses, message \in CompletionMessages}

\* the call of the language model, and the response or the catch block
MessageComplete(r, g) ==
  /\ BagIn(r, reqs) /\ r.kind = "message" /\ r.pc = "llm"
  /\ LET r2 == [r EXCEPT !.llm = TRUE]
     IN  ChatContinue(r,
           IF g = NoError THEN ChatRespond(r2, 200, "response") ELSE CatchBlock(r2, g))
  /\ UNCHANGED <<route_licenses, now, envVars, linkVars, moreVars>>

\* midnight passes, between requests or while handlers are suspended
ChatTick ==
  /\ \E t \in StartTimes : now + MinutesPerDay <= t + MaxChatTicks * MinutesPerDay
  /\ now' = now + MinutesPerDay
  /\ out' = NoChatReq
  /\ UNCHANGED <<route_licenses, reqs, envVars, linkVars, moreVars>>

\* user 1 has asked seven questions today
ChatInit ==
  /\ route_licenses = <<>>
  /\ reqs = EmptyBag
  /\ out = NoChatReq
  /\ now \in StartTimes
  /\ webhookSecret = TRUE
  /\ sending = TRUE
  /\ route_links = <<>>
  /\ naas_access_tokens = <<>>
  /\ handed = {}
  /\ route_settings = DefaultLinkExpiryHours
  /\ PayIdle
  /\ chatbot_usage = <<UsageRow(1, toISODate(now), MAX_QUESTIONS_PER_DAY - 1)>>
  /\ passed = [ud \in {<<1, toISODate(now)>>} |-> MAX_QUESTIONS_PER_DAY - 1]

ChatNext ==
  \/ \E userId \in ChatUsers, message \in MessageInputs, history \in HistoryInputs :
       MessageReceive(userId, message, history)
  \/ \E r \in InFlight, q \in QueryOutcomes : UsageSelect(r, q)
  \/ \E r \in InFlight, q \in QueryOutcomes : UsageInsert(r, q)
  \/ \E r \in InFlight, q \in QueryOutcomes, key \in KeyInputs : UsageUpdate(r, q, key)
  \/ \E r \in InFlight, g \in CompletionOutcomes : MessageComplete(r, g)
  \/ ChatTick

ChatSpec == ChatInit /\ [][ChatNext]_vars

----------------------------------------------------------------------------
(* GET /centres, GET /active-links, GET /settings and POST /checkout *)

\* the call of hasActiveLicense; the list of centres is a constant of the code
Centres(userId, limit) ==
  /\ LinkArrive(AwaitLicense([NoLinkReq EXCEPT !.kind = "centres", !.caller = userId]),
                limit)
  /\ UNCHANGED <<route_licenses, now, envVars, moreVars, linkVars>>

ActiveLinks(userId, limit) ==
  /\ LinkArrive([NoLinkReq EXCEPT !.kind = "active-links", !.caller = userId,
                                  !.pc = "select"],
                limit)
  /\ UNCHANGED <<route_licenses, now, envVars, moreVars, linkVars>>

\* SELECT link_token, ... FROM route_links WHERE user_id = $1 AND expires_at > NOW()
ActiveLinksSelect(r, q) ==
  /\ BagIn(r, reqs) /\ r.kind = "active-links" /\ r.pc = "select"
  /\ LinkContinue(r,
       IF q # "ok"
       THEN LinkFail(r, q, 500, "Failed to get active links")
       ELSE LinkRespond(
              [r EXCEPT !.at = now,
                        !.links = {route_links[k].link_token :
                                     k \in {j \in DOMAIN route_links :
                                              /\ route_links[j].user_id = r.caller
                                              /\ route_links[j].expires_at > now}}],
              200, "links"))
  /\ UNCHANGED <<route_licenses, now, envVars, moreVars, linkVars>>

GetSettings(userId, limit) ==
  /\ LinkArrive([NoLinkReq EXCEPT !.kind = "settings", !.caller = userId,
                                  !.pc = "select"],
                limit)
  /\ UNCHANGED <<route_licenses, now, envVars, moreVars, linkVars>>

\* SELECT link_expiry_hours FROM route_settings WHERE id = 1, and
\* result.rows[0]?.link_expiry_hours || 12
GetSettingsSelect(r, q) ==
  /\ BagIn(r, reqs) /\ r.kind = "settings" /\ r.pc = "select"
  /\ LinkContinue(r,
       IF q # "ok"
       THEN LinkFail(r, q, 500, "Failed to get settings")
       ELSE LinkRespond([r EXCEPT !.hours = getLinkExpiryHours(q)], 200, "linkExpiryHours"))
  /\ UNCHANGED <<route_licenses, now, envVars, moreVars, linkVars>>

\* if (!stripe) return 500, and the call of hasActiveLicense
Checkout(userId, limit) ==
  /\ LET r == [NoLinkReq EXCEPT !.kind = "checkout", !.caller = userId]
     IN  LinkArrive(IF ~stripe
                    THEN LinkRefuse(r, 500, "Payment system not configured. Please contact support.")
                    ELSE AwaitLicense(r),
                    limit)
  /\ UNCHANGED <<route_licenses, now, envVars, moreVars, linkVars>>

\* what stripe.checkout.sessions.create does: it returns the session, or throws
CheckoutOutcomes == {"ok", "error"}

\* res.json({ sessionId, url }), or the 500 of the catch block; the session is
\* kept by the gateway
CheckoutCreate(r, g) ==
  /\ BagIn(r, reqs) /\ r.kind = "checkout" /\ r.pc = "create"
  /\ LinkContinue(r,
       IF g # "ok"
       THEN LinkFail(r, g, 500, "Failed to create checkout session")
       ELSE LinkRespond(r, 200, "sessionId"))
  /\ UNCHANGED <<route_licenses, now, envVars, moreVars, linkVars>>

----------------------------------------------------------------------------
(* Every endpoint at once: the requests of user 1 to the handlers of the
   sections above, and the checkout of a user of the allow-list, under every
   answer of the store, the gateway and the language model, until the clients
   stop sending *)

\* a delivery of the gateway and a confirm-payment call arrive beside a
\* suspended handler of any endpoint
HandlersLimit == [reqs |-> MaxRaceReqs, rows |-> MaxRows + 2]

\* a request to another endpoint arrives while no handler is suspended; the
\* tables have room for one more link or access token
HandlersAlone == [reqs |-> MaxLinkReqs, rows |-> MaxRows + 2]

\* user 1 holds a license, and the link and the access token minted under it
HandlersInit ==
  /\ route_licenses = <<BoughtLicense(1, "pi_0", LicenseBoughtAt)>>
  /\ reqs = EmptyBag
  /\ out = NoReq
  /\ now \in StartTimes
  /\ webhookSecret = TRUE
  /\ sending = TRUE
  /\ route_links
       = <<LinkRow(1, "Naas", 3, 1,
                   setHours(now, getHours(now) + DefaultLinkExpiryHours))>>
  /\ naas_access_tokens
       = <<TokenRow(1, 1, setMinutes(now, getMinutes(now) + TokenMinutes))>>
  /\ handed = {<<1, MintKind("naas")>>}
  /\ PayIdle /\ ChatIdle
  /\ route_settings = DefaultLinkExpiryHours

\* the event of the payment intent user 1 paid
HandlersEvents ==
  {ev \in RaceEvents : /\ ev.type = "payment_intent.succeeded"
                       /\ ev.amount = BundleThreshold /\ ev.purchase_type = "bundle"}

\* a chatbot key that getOpenAIClient accepts
HandlersKey == JsString(<<"s", "k", "-", "1">>)

\* the language model answers, or fails with a server error
HandlersCompletions == {NoError, Thrown("completion", 500, {})}

\* a request arrives at one of the endpoints, while the clients go on sending
HandlersArrive ==
  \/ sending /\ \E ev \in HandlersEvents : WebhookReceive(TRUE, ev, HandlersLimit.reqs)
  \/ sending /\ \E p \in PaymentRefs : ConfirmReceive(1, p, HandlersLimit.reqs)
  \/ sending /\ CreatePaymentIntent(1, JsNumber(BundleThreshold))
  \/ sending /\ LicenseStatus(1)
  \/ sending /\ GenerateLink(1, "Naas", 3, HandlersAlone)
  \/ sending /\ \E dataset \in Datasets : GenerateToken(dataset, 1, HandlersAlone)
  \/ sending /\ \E token \in HeldTokens : ValidateLink(1, token, HandlersAlone)
  \/ sending /\ \E dataset \in Datasets, token \in HeldTokens :
                   NaasData(dataset, 1, token, HandlersAlone)
  \/ sending /\ \E dataset \in Datasets, token \in HeldTokens :
                   NaasRoute(dataset, token, JsString(<<"1">>), HandlersAlone)
  \/ sending /\ Centres(1, HandlersAlone)
  \/ sending /\ ActiveLinks(1, HandlersAlone)
  \/ sending /\ GetSettings(1, HandlersAlone)
  \/ sending /\ \E userId \in {1} \cup AdminUserIds : Checkout(userId, HandlersAlone)
  \/ /\ sending /\ passed = EmptyBag /\ BagCardinality(reqs) < HandlersAlone.reqs
     /\ MessageReceive(1, JsString(<<"h", "i">>), JsUndefined)

\* the event loop runs the continuation of a suspended handler: the store,
\* the gateway, the file system or the language model has answered its await
HandlersResume ==
  \/ \E r \in InFlight, q \in QueryOutcomes : WebhookSelect(r, q)
  \/ \E r \in InFlight, q \in QueryOutcomes : WebhookInsert(r, q)
  \/ \E r \in InFlight, g \in RaceRetrieveOutcomes : ConfirmRetrieve(r, g[1], g[2])
  \/ \E r \in InFlight, q \in QueryOutcomes : ConfirmSelect(r, q)
  \/ \E r \in InFlight, q \in QueryOutcomes : ConfirmInsert(r, q)
  \/ \E r \in InFlight, q \in LicenseOutcomes : PayLicenseQuery(r, q)
  \/ \E r \in InFlight, q \in QueryOutcomes : PayLicenseRetry(r, q)
  \/ \E r \in InFlight, g \in CreateOutcomes : CreatePaymentIntentCreate(r, g)
  \/ \E r \in InFlight, q \in LicenseOutcomes : LicenseQuery(r, q, HandlersLimit)
  \/ \E r \in InFlight, q \in QueryOutcomes : LicenseRetry(r, q, HandlersLimit)
  \/ \E r \in InFlight, q \in QueryOutcomes : GenerateLinkSettings(r, q)
  \/ \E r \in InFlight, q \in QueryOutcomes :
       GenerateLinkInsert(r, q, FreshToken(route_links))
  \/ \E r \in InFlight, q \in QueryOutcomes :
       GenerateTokenInsert(r, q, FreshToken(naas_access_tokens))
  \/ \E r \in InFlight, q \in QueryOutcomes : ValidateLinkSelect(r, q)
  \/ \E r \in InFlight, q \in QueryOutcomes : ValidateLinkUpdate(r, q)
  \/ \E r \in InFlight, q \in QueryOutcomes, f \in FileOutcomes : NaasDataSelect(r, q, f)
  \/ \E r \in InFlight, q \in QueryOutcomes : NaasDataUpdate(r, q)
  \/ \E r \in InFlight, q \in QueryOutcomes, f \in FileOutcomes : NaasRouteSelect(r, q, f)
  \/ \E r \in InFlight, q \in QueryOutcomes : ActiveLinksSelect(r, q)
  \/ \E r \in InFlight, q \in QueryOutcomes : GetSettingsSelect(r, q)
  \/ \E r \in InFlight, g \in CheckoutOutcomes : CheckoutCreate(r, g)
  \/ \E r \in InFlight, q \in QueryOutcomes : UsageSelect(r, q)
  \/ \E r \in InFlight, q \in QueryOutcomes : UsageInsert(r, q)
  \/ \E r \in InFlight, q \in QueryOutcomes : UsageUpdate(r, q, HandlersKey)
  \/ \E r \in InFlight, g \in HandlersCompletions : MessageComplete(r, g)

\* the clients send no request from now on
LastRequest ==
  /\ sending
  /\ sending' = FALSE
  /\ out' = NoReq
  /\ UNCHANGED <<route_licenses, reqs, now, webhookSecret, linkVars, moreVars>>

HandlersNext ==
  \/ HandlersArrive
  \/ HandlersResume
  \/ LastRequest

\* the store, the gateway and the language model answer every statement, and
\* the event loop runs the continuation that waits for the answer
HandlersSpec == HandlersInit /\ [][HandlersNext]_vars /\ WF_vars(HandlersResume)

----------------------------------------------------------------------------
(* Vocabulary of the properties *)

PaymentIntentSucceeded == "payment_intent.succeeded"
CheckoutCompleted == "checkout.session.completed"

RowsOfPayment(p) ==
  {k \in DOMAIN route_licenses : route_licenses[k].stripe_payment_intent_id = p}

RowsOfSession(c) ==
  {k \in DOMAIN route_licenses : route_licenses[k].stripe_checkout_session_id = c}

\* the signature of the delivery was checked against a configured secret and matched
Verified(o) == o.kind = "webhook" /\ webhookSecret /\ stripe /\ o.sig

\* the suspended handler r takes the step
StepOf(r) == BagIn(r, reqs) /\ CopiesIn(r, reqs') < CopiesIn(r, reqs)

\* the step is a request that is answered before its handler ever suspends
AnsweredAtOnce == out'.pc = "done" /\ reqs' = reqs

IsPrefix(s, t) == Len(s) <= Len(t) /\ SubSeq(t, 1, Len(s)) = s

\* e is t moved on by three calendar months, same time of day (89 to 92 days)
ThreeMonthsAfter(t, e) ==
  /\ (e - t) % MinutesPerDay = 0
  /\ (e - t) \div MinutesPerDay \in 89..92

ThirtyDaysAfter(t, e) == e - t = 30 * MinutesPerDay

----------------------------------------------------------------------------
(* C1: in every reachable state, whatever the interleaving of confirm-payment
   calls and webhook deliveries, each payment reference (payment-intent id or
   checkout-session id) has at most one row in route_licenses. *)
C1_OneLicensePerReference ==
  /\ \A p \in PaymentRefs : Cardinality(RowsOfPayment(p)) <= 1
  /\ \A c \in SessionRefs : Cardinality(RowsOfSession(c)) <= 1

\* a handler that passed its existence check lost the race to another insert
C1_Witness ==
  /\ out.pc = "done" /\ out.err = "unique"
  /\ out.type # CheckoutCompleted
  /\ Cardinality(RowsOfPayment(out.id)) = 1

\* a call that creates the License row when it runs alone and nothing fails
CreatesLicense(o) ==
  \/ Verified(o) /\ o.type = PaymentIntentSucceeded /\ o.user # NoUser
  \/ o.kind = "confirm" /\ o.intent_status = "succeeded" /\ o.user = o.caller

(* C2: a confirm-payment call or payment_intent.succeeded delivery that does
   not create the row because another call for the same reference did, and
   that met no store or gateway outage, reports no failure: it is never
   answered 500, and a webhook delivery is answered 200. *)
C2_BenignConflict ==
  (/\ out.pc = "done" /\ CreatesLicense(out)
   /\ ~out.inserted /\ out.err \notin {"outage", "error"})
  => /\ out.status # 500
     /\ out.kind = "webhook" => out.status = 200

(* C3: a verified payment_intent.succeeded delivery whose handler refuses or
   runs its existence check while a row for the payment already exists is
   answered 200 received and changes no row. *)
C3_RedeliveryIsNoOp ==
  [][ /\ (/\ AnsweredAtOnce /\ Verified(out') /\ out'.type = PaymentIntentSucceeded
          /\ RowsOfPayment(out'.id) # {})
         => /\ out'.status = 200 /\ out'.body = "received: License already exists"
            /\ UNCHANGED route_licenses
      /\ \A r \in InFlight :
           (/\ StepOf(r) /\ r.kind = "webhook" /\ r.pc = "select"
            /\ RowsOfPayment(r.id) # {})
           => /\ out'.pc = "done" /\ out'.status = 200
              /\ out'.body = "received: License already exists"
              /\ UNCHANGED route_licenses ]_vars

(* C4: a signature-verified checkout.session.completed delivery that arrives
   after an earlier delivery of the same event created the row of its session
   (the row was purchased at an earlier clock reading than the delivery's)
   leaves exactly one row for the session and, unless the store is out, is
   answered 200 received. *)
C4_RedeliveryReceived ==
  [][ \A r \in InFlight :
        (/\ StepOf(r) /\ Verified(r) /\ r.type = CheckoutCompleted /\ r.pc = "insert"
         /\ \E k \in RowsOfSession(r.id) :
              /\ route_licenses[k].user_id = r.user
              /\ route_licenses[k].stripe_payment_intent_id = r.payment_intent
              /\ route_licenses[k].purchased_at < r.at)
        => /\ Cardinality({k \in DOMAIN route_licenses' :
                             route_licenses'[k].stripe_checkout_session_id = r.id}) = 1
           /\ \/ out'.err = "outage"
              \/ out'.status = 200 /\ out'.body = "received" ]_vars

(* C5: a webhook delivery that arrives while no secret is configured is
   answered 500, and one whose signature does not verify (it does not match,
   or the gateway client that verifies it was never initialized) is answered
   400; both are answered before any store statement, so no handler of an
   unverified delivery is ever suspended and the table is left as it was. *)
C5_UnverifiedDelivery ==
  [][ /\ (AnsweredAtOnce /\ out'.kind = "webhook" /\ ~webhookSecret)
         => out'.status = 500 /\ UNCHANGED route_licenses
      /\ (AnsweredAtOnce /\ out'.kind = "webhook" /\ webhookSecret /\ ~(stripe /\ out'.sig))
         => out'.status = 400 /\ UNCHANGED route_licenses
      /\ \A r \in BagToSet(reqs') :
           r.kind = "webhook" => webhookSecret /\ stripe /\ r.sig
      /\ (route_licenses' # route_licenses /\ out'.kind = "webhook") => Verified(out') ]_vars

\* a delivery with a bad signature was refused while the table held a row
C5_Witness ==
  /\ out.kind = "webhook" /\ webhookSecret /\ ~out.sig
  /\ out.status = 400 /\ out.body = "Webhook Error"
  /\ route_licenses # <<>>

(* C6: every signature-verified delivery that carries what its branch needs (a
   user id, for the two handled event types) is answered 200 received,
   whatever happens to the license insert. *)
C6_AlwaysReceived ==
  (/\ out.pc = "done" /\ Verified(out)
   /\ out.type \in {PaymentIntentSucceeded, CheckoutCompleted} => out.user # NoUser)
  => /\ out.status = 200
     /\ out.body \in {"received", "received: License already exists"}

(* C7: a verified payment_intent.succeeded delivery with a user id whose
   handler found no row for the payment, while the store answers its
   statements, created exactly one row for that user, expiring three months
   after now when the amount is at least 1399 and thirty days after now when
   it is less. *)
C7_WebhookLicenseWindow ==
  (/\ out.pc = "done" /\ Verified(out) /\ out.type = PaymentIntentSucceeded
   /\ out.user # NoUser /\ out.err = "none"
   /\ out.body # "received: License already exists")
  => /\ out.inserted
     /\ \E k \in RowsOfPayment(out.id) :
          /\ RowsOfPayment(out.id) = {k}
          /\ route_licenses[k].user_id = out.user
          /\ route_licenses[k].expires_at = out.expiresAt
     /\ out.amount >= 1399 => ThreeMonthsAfter(out.at, out.expiresAt)
     /\ out.amount < 1399 => ThirtyDaysAfter(out.at, out.expiresAt)

\* a single-route purchase was licensed for thirty days by the webhook
C7_Witness ==
  /\ Verified(out) /\ out.type = PaymentIntentSucceeded /\ out.inserted
  /\ out.amount = BundleThreshold - 1 /\ out.purchase_type = "single"
  /\ ThirtyDaysAfter(out.at, out.expiresAt)
  /\ Cardinality(RowsOfPayment(out.id)) = 1

(* C8: the License confirm-payment creates for a succeeded intent has the
   window the webhook gives the same intent at the same moment: the window
   depends on the purchase kind, not on the caller that creates the row. *)
C8_SameWindowForBothCallers ==
  (out.pc = "done" /\ out.kind = "confirm" /\ out.inserted)
  => out.expiresAt = WebhookExpiresAt(out.at, purchaseTypeOf(out), out.amount)

(* C9: confirm-payment, when the gateway and the store answer, rejects with 403
   an intent whose metadata user id is not the caller's, with 400 an intent of
   the caller that has not succeeded, and with 400 a succeeded intent of the
   caller for which the existence check finds a row; none of these inserts. *)
C9_ConfirmRejections ==
  [][ \A r \in InFlight :
        (StepOf(r) /\ r.kind = "confirm" /\ out'.pc = "done" /\ out'.err = "none")
        => /\ out'.user # out'.caller
                => out'.status = 403 /\ UNCHANGED route_licenses
           /\ (out'.user = out'.caller /\ out'.intent_status # "succeeded")
                => out'.status = 400 /\ UNCHANGED route_licenses
           /\ (/\ out'.user = out'.caller /\ out'.intent_status = "succeeded"
               /\ r.pc = "select" /\ RowsOfPayment(r.id) # {})
                => /\ out'.status = 400
                   /\ out'.body = "License already created for this payment"
                   /\ UNCHANGED route_licenses ]_vars

\* a confirm-payment call of another user's intent was refused
C9_Witness ==
  /\ out.kind = "confirm" /\ out.status = 403
  /\ out.intent_status = "succeeded" /\ out.user # out.caller /\ out.user # NoUser
  /\ ~out.inserted

\* the rows of a non-admin user that have not run out
UnexpiredRows(u) ==
  {k \in DOMAIN route_licenses :
     route_licenses[k].user_id = u /\ route_licenses[k].expires_at > now}

(* C10: every step leaves the rows of route_licenses as they were and adds at
   most one, and a row is added only by a confirm-payment call whose caller
   owns the intent the gateway reported succeeded, or by a signature-verified
   webhook delivery; whether a user holds a license is decided by comparing
   expires_at with now, the expired rows staying in the table. *)
C10_LicensesOnlyAdded ==
  [][ /\ IsPrefix(route_licenses, route_licenses')
      /\ route_licenses' # route_licenses
           => /\ Len(route_licenses') = Len(route_licenses) + 1
              /\ out'.pc = "done" /\ out'.inserted
              /\ \/ /\ out'.kind = "confirm" /\ out'.intent_status = "succeeded"
                    /\ out'.user = out'.caller
                    /\ route_licenses'[Len(route_licenses')].user_id = out'.caller
                    /\ route_licenses'[Len(route_licenses')].stripe_payment_intent_id = out'.id
                 \/ /\ Verified(out')
                    /\ out'.type \in {PaymentIntentSucceeded, CheckoutCompleted}
                    /\ route_licenses'[Len(route_licenses')].user_id = out'.user
      /\ \A u \in Users \ AdminUserIds :
           hasActiveLicense(u, "ok", "ok").found <=> UnexpiredRows(u) # {} ]_vars

\* a license ran out and its row is still in the table
C10_Witness ==
  /\ \E k \in DOMAIN route_licenses :
       route_licenses[k].user_id = 1 /\ route_licenses[k].expires_at <= now
  /\ ~hasActiveLicense(1, "ok", "ok").found

----------------------------------------------------------------------------
(* Vocabulary of the link and token properties *)

MintKinds == {"generate-link", "generate-naas-token"}

\* the user is on the allow-list, or holds a License row that has not run out at t
HoldsLicenseAt(u, t) ==
  \/ u \in AdminUserIds
  \/ \E k \in DOMAIN route_licenses :
       route_licenses[k].user_id = u /\ route_licenses[k].expires_at > t

\* the users with no License row who are not on the allow-list
Unlicensed ==
  {u \in LinkUsers \ AdminUserIds :
     \A k \in DOMAIN route_licenses : route_licenses[k].user_id # u}

\* the request carries a centre name and a route number
BothFields(r) == ~FalsyString(r.centre) /\ ~FalsyNumber(r.route)

\* the rows of either table owned by u
RowsOwnedBy(u) ==
  {k \in DOMAIN route_links : route_links[k].user_id = u}
    \cup {k \in DOMAIN naas_access_tokens : naas_access_tokens[k].user_id = u}

(* C11: a suspended minting handler that is past the license check, and the
   minting request that has just inserted a row, passed hasActiveLicense: at
   the clock reading of that check, which is not later than now, its caller
   was on the allow-list or held a License row that had not run out, and the
   request that inserted owns the last row of its table; a minting handler
   that still waits for the license query has inserted nothing; for a user
   with no License row who is not on the allow-list hasActiveLicense finds
   nothing whatever the store answers, generate-link (given both fields) and
   generate-naas-token answer 403 having inserted nothing, and that user
   owns no row. *)
C11_MintingNeedsLicense ==
  /\ \A r \in BagToSet(reqs) :
       r.kind \in MintKinds
         => IF r.pc \in MintingPcs
            THEN /\ r.licensed /\ r.licenseAt <= now
                 /\ HoldsLicenseAt(r.caller, r.licenseAt)
            ELSE ~r.licensed /\ ~r.changed
  /\ out.kind \in MintKinds /\ out.changed
       => /\ out.licensed /\ out.status = 200
          /\ out.licenseAt <= now /\ HoldsLicenseAt(out.caller, out.licenseAt)
          /\ out.kind = "generate-link"
               => route_links[Len(route_links)].user_id = out.caller
          /\ out.kind = "generate-naas-token"
               => naas_access_tokens[Len(naas_access_tokens)].user_id = out.caller
  /\ \A u \in Unlicensed :
       /\ \A l \in LicenseQueries : ~hasActiveLicense(u, l[1], l[2]).found
       /\ RowsOwnedBy(u) = {}
       /\ (/\ out.kind \in MintKinds /\ out.caller = u
           /\ (out.kind = "generate-link" => BothFields(out)))
            => out.status = 403 /\ ~out.changed

\* the user with no License row was refused a link for a centre and a route,
\* after a licensed user was given a token
C11_Witness ==
  /\ out.kind = "generate-link" /\ out.caller \in Unlicensed /\ BothFields(out)
  /\ out.status = 403
  /\ Len(naas_access_tokens) = 1

\* u is not on the allow-list and has License rows, which have all run out at t
LapsedAt(u, t) ==
  /\ u \in LinkUsers \ (AdminUserIds \cup Unlicensed)
  /\ \A k \in DOMAIN route_licenses :
       route_licenses[k].user_id = u => route_licenses[k].expires_at <= t

(* C12: for a user not on the allow-list all of whose License rows have run
   out, hasActiveLicense finds nothing whatever the store answers, which is
   what it finds for a user with no row at all; when the rows had run out at
   the clock reading of the license check of the request, license-status
   answers hasLicense false with no expiry and isPermanent false, and
   generate-link (given both fields) answers 403 having inserted nothing. *)
C12_ExpiredLicenseIsNoLicense ==
  \A u \in LinkUsers :
    /\ LapsedAt(u, now)
         => \A l \in LicenseQueries :
              /\ hasActiveLicense(u, l[1], l[2]) = NoLicense
              /\ \A v \in Unlicensed :
                   hasActiveLicense(u, l[1], l[2]) = hasActiveLicense(v, l[1], l[2])
    /\ out.kind = "license-status" /\ out.caller = u /\ LapsedAt(u, out.licenseAt)
         => /\ out.status = 200 /\ out.body = "hasLicense: false"
            /\ ~out.licensed /\ ~out.permanent /\ out.expiresAt = NoLicense.expires_at
    /\ (/\ out.kind = "generate-link" /\ out.caller = u /\ BothFields(out)
        /\ LapsedAt(u, out.licenseAt))
         => out.status = 403 /\ ~out.changed

\* the user whose license ran out an hour after the start asked for a link
\* when it was over, and was refused
C12_Witness ==
  /\ out.kind = "generate-link" /\ LapsedAt(out.caller, out.licenseAt) /\ BothFields(out)
  /\ out.status = 403
  /\ \E k \in DOMAIN route_licenses :
       route_licenses[k].user_id = out.caller /\ route_licenses[k].expires_at < now

(* C13: for a user on the allow-list, whether the table holds no row of theirs
   or one that ran out, and whatever the store answers to the queries,
   hasActiveLicense returns the permanent license; license-status answers
   hasLicense true and isPermanent true, and generate-link and
   generate-naas-token never answer 403. *)
C13_AllowListIsPermanent ==
  \A u \in AdminUserIds :
    /\ \A l \in LicenseQueries :
         hasActiveLicense(u, l[1], l[2])
           = [found |-> TRUE, expires_at |-> PermanentExpiry, is_permanent |-> TRUE]
    /\ out.kind = "license-status" /\ out.caller = u
         => /\ out.status = 200 /\ out.body = "hasLicense: true"
            /\ out.licensed /\ out.permanent /\ out.expiresAt = PermanentExpiry
    /\ out.kind \in MintKinds /\ out.caller = u => out.status # 403

\* the allow-listed user, whose only License row ran out, was given a token
C13_Witness ==
  /\ out.kind = "generate-naas-token" /\ out.caller \in AdminUserIds
  /\ out.status = 200 /\ out.changed
  /\ \E k \in DOMAIN route_licenses : route_licenses[k].user_id = out.caller
  /\ \A k \in DOMAIN route_licenses :
       route_licenses[k].user_id = out.caller => route_licenses[k].expires_at < now

(* C14: hasActiveLicense always returns a license or nothing, never an error:
   license-status answers 200 whatever the store answers to the queries; when
   the filtered query fails for the missing is_active column and the
   unfiltered query answers, the result is the latest unexpired row of the
   user, which is what license-status reports; when the user has no unexpired
   row, or the store fails otherwise, the result is null; a handler that
   waits for the unfiltered query has been given no license yet; a minting
   request is answered 500 only for the failure of its own INSERT. *)
C14_LicenseCheckNeverRaises ==
  /\ \A u \in LinkUsers \ AdminUserIds, l \in LicenseQueries :
       LET license == hasActiveLicense(u, l[1], l[2])
       IN  /\ license.found \in BOOLEAN
           /\ l = <<"is_active missing", "ok">>
                => license = LatestLicense(route_licenses, UnexpiredRows(u))
           /\ UnexpiredRows(u) = {} => license = NoLicense
           /\ LicenseQueryLog(u, l[1], l[2]) = "outage" => license = NoLicense
  /\ out.kind = "license-status"
       => /\ out.status = 200
          /\ out.err = "is_active missing"
               => /\ out.licensed <=> UnexpiredRows(out.caller) # {}
                  /\ out.licensed
                       => out.expiresAt
                            = LatestLicense(route_licenses, UnexpiredRows(out.caller)).expires_at
          /\ out.err = "outage" => ~out.licensed /\ out.body = "hasLicense: false"
  /\ \A r \in BagToSet(reqs) :
       r.pc = "license-retry" => ~r.licensed /\ r.status = 0 /\ r.caller \notin AdminUserIds
  /\ out.kind \in MintKinds => out.status \in {200, 400, 403} \/ out.err # "none"

\* the is_active column was missing, the retry answered, and license-status
\* reported the license of user 1
C14_Witness ==
  /\ out.kind = "license-status" /\ out.caller = 1
  /\ out.err = "is_active missing"
  /\ out.licensed /\ out.body = "hasLicense: true"

\* the hours getLinkExpiryHours returned to the suspended generate-link handler r
HoursGiven(r) == (r.expiresAt - r.at) \div MinutesPerHour

(* C15 as claimed: getLinkExpiryHours returns the stored link_expiry_hours
   whenever the read succeeds and the row exists, and 12 when the row is
   missing or the query fails: those are the hours the handler of
   generate-link holds when it goes on to its INSERT. *)
C15_Original ==
  \A r \in BagToSet(reqs) :
    r.kind = "generate-link" /\ r.pc = "insert"
      => HoursGiven(r) = IF r.err = "none" /\ route_settings # NoRow
                         THEN route_settings ELSE DefaultLinkExpiryHours

(* C15 amended: getLinkExpiryHours returns the stored link_expiry_hours
   whenever the read succeeds and the row exists with a value other than 0,
   and 12 when the row is missing, holds 0, or the query fails; the handler
   of generate-link goes on to its INSERT with those hours, and a request
   whose settings read failed is answered 200 with the token of the row it
   inserted, which runs out twelve hours after the clock reading of the
   handler, unless the INSERT itself fails. *)
C15_ExpiryHoursOrDefault ==
  /\ \A q \in QueryOutcomes :
       getLinkExpiryHours(q) = IF q = "ok" /\ route_settings \notin {NoRow, 0}
                               THEN route_settings ELSE DefaultLinkExpiryHours
  /\ \A r \in BagToSet(reqs) :
       r.kind = "generate-link" /\ r.pc = "insert"
         => /\ r.expiresAt = r.at + HoursGiven(r) * MinutesPerHour
            /\ HoursGiven(r) = IF r.err = "none" /\ route_settings \notin {NoRow, 0}
                               THEN route_settings ELSE DefaultLinkExpiryHours
  /\ out.kind = "generate-link" /\ out.err = "settings unread"
       => /\ out.status = 200 /\ out.changed
          /\ route_links[Len(route_links)].link_token = out.token
          /\ route_links[Len(route_links)].expires_at
               = out.at + DefaultLinkExpiryHours * MinutesPerHour

\* the settings row holds one hour, its read failed, and the link was minted
\* for twelve
C15_Witness ==
  /\ route_settings = 1
  /\ out.kind = "generate-link" /\ out.err = "settings unread" /\ out.status = 200
  /\ route_links[Len(route_links)].expires_at
       = out.at + DefaultLinkExpiryHours * MinutesPerHour

\* the hours a generate-link handler is owed: the stored ones it read, or the default
HoursOwed(r) ==
  IF r.err = "none" /\ route_settings \notin {NoRow, 0}
  THEN route_settings ELSE DefaultLinkExpiryHours

(* C16: a generate-link request of a caller who passed the license check and
   sent a centre name and a route number, when its INSERT is executed, adds
   exactly one row to route_links: the caller's, with that centre and route,
   a token no other row holds, is_used false and expires_at the clock
   reading the handler took when getLinkExpiryHours() returned (the now of
   the request, not later than the clock of the INSERT) plus those hours,
   and the answer is 200 with that token (a failed INSERT is answered 500
   and adds nothing); a generate-link request in which the centre name or
   the route number is absent is answered 400, and the step changes no table
   and suspends nothing. *)
C16_GenerateLinkInsertsOneRow ==
  [][ /\ \A r \in BagToSet(reqs) :
           r.kind = "generate-link" /\ r.pc = "insert" /\ StepOf(r)
             => /\ r.licensed /\ BothFields(r) /\ r.at <= now
                /\ \/ /\ out'.status = 500 /\ out'.err = "outage"
                      /\ linkVars' = linkVars
                   \/ /\ out'.status = 200 /\ out'.body = "linkToken"
                      /\ out'.caller = r.caller
                      /\ route_links'
                           = Append(route_links,
                               [user_id |-> r.caller, centre_name |-> r.centre,
                                route_number |-> r.route, link_token |-> out'.token,
                                created_at |-> now,
                                expires_at |-> r.at + HoursOwed(r) * MinutesPerHour,
                                is_used |-> FALSE, last_accessed_at |-> NotAccessed])
                      /\ LinksOfToken(out'.token) = {}
                      /\ naas_access_tokens' = naas_access_tokens
      /\ Len(route_links') # Len(route_links)
           => \E r \in BagToSet(reqs) :
                r.kind = "generate-link" /\ r.pc = "insert" /\ StepOf(r)
      /\ out'.kind = "generate-link" /\ ~BothFields(out')
           => /\ out'.status = 400 /\ ~out'.changed
              /\ linkVars' = linkVars /\ reqs' = reqs ]_vars

\* the settings row holds one hour: the link user 1 was given runs out an hour
\* after the clock reading of its handler
C16_Witness ==
  /\ route_settings = 1
  /\ out.kind = "generate-link" /\ out.status = 200 /\ out.caller = 1
  /\ \E k \in DOMAIN route_links :
       /\ route_links[k].link_token = out.token /\ route_links[k].user_id = 1
       /\ ~route_links[k].is_used
       /\ route_links[k].expires_at = out.at + MinutesPerHour

----------------------------------------------------------------------------
(* validate-link *)

NotFound == "valid: false, Link not found"

\* the rows of route_links that hold the token and belong to u
OwnLinks(token, u) ==
  {k \in DOMAIN route_links :
     route_links[k].link_token = token /\ route_links[k].user_id = u}

(* C17: a validate-link request, answered by the store, whose caller owns no
   link with the token presented (the token is another user's, or no row
   holds it) is answered 200 valid false, Link not found, the same answer in
   both cases; the step that answers changes no row and ends that handler
   only, and no validate-link handler ever goes on to the UPDATE of a link
   its caller does not own. *)
C17_ValidationScopedToOwner ==
  [][ /\ (/\ out'.kind = "validate-link" /\ out'.err = "none"
          /\ OwnLinks(out'.token, out'.caller) = {})
           => /\ out'.status = 200 /\ out'.body = NotFound
              /\ linkVars' = linkVars
              /\ \E r \in BagToSet(reqs) :
                   /\ r.kind = "validate-link" /\ r.pc = "select"
                   /\ r.token = out'.token /\ r.caller = out'.caller
                   /\ reqs' = reqs (-) SetToBag({r})
      /\ \A r \in BagToSet(reqs') :
           r.kind = "validate-link" /\ r.pc = "update"
             => OwnLinks(r.token, r.caller) # {} ]_vars

\* the link is the allow-listed user's, and user 1 who presented its token was
\* told there is no such link
C17_Witness ==
  /\ out.kind = "validate-link" /\ out.caller = 1 /\ out.body = NotFound
  /\ \E k \in DOMAIN route_links :
       /\ route_links[k].link_token = out.token
       /\ route_links[k].user_id = 2
       /\ now < route_links[k].expires_at

LinkExpired == "valid: false, Link has expired"

(* C18: a validate-link request the store answers, made by the owner of the
   link, is answered 200: valid true with the centre name and route number
   of the row, whether or not the row was already marked used, when the
   clock reading its handler compared with expires_at was not past it, and
   valid false, Link has expired, when that reading was past it; the
   reading is the clock of the SELECT's answer, which is now for a request
   reported expired and not later than now for one reported valid, and the
   handler suspended before its UPDATE holds a link that had not run out at
   its reading. *)
C18_OwnerValidation ==
  /\ out.kind = "validate-link" /\ out.err = "none"
       => \A k \in OwnLinks(out.token, out.caller) :
            /\ out.status = 200
            /\ out.body \in {"valid: true", LinkExpired}
            /\ out.body = "valid: true"
                 <=> (IF out.at = 0 THEN now ELSE out.at) <= route_links[k].expires_at
            /\ out.body = "valid: true"
                 => /\ out.at <= now
                    /\ out.centre = route_links[k].centre_name
                    /\ out.route = route_links[k].route_number
                    /\ route_links[k].is_used
            /\ out.body = LinkExpired => out.at = 0 /\ now > route_links[k].expires_at
  /\ \A r \in BagToSet(reqs) :
       r.kind = "validate-link" /\ r.pc = "update"
         => \A k \in OwnLinks(r.token, r.caller) :
              /\ r.at <= route_links[k].expires_at /\ r.at <= now
              /\ r.centre = route_links[k].centre_name
              /\ r.route = route_links[k].route_number

\* the link had been validated before, and its owner validating it again
\* before its expiry was given the centre and the route
C18_Witness ==
  /\ out.kind = "validate-link" /\ out.body = "valid: true" /\ out.is_used
  /\ \E k \in OwnLinks(out.token, out.caller) :
       /\ now < route_links[k].expires_at
       /\ out.centre = "Naas" /\ out.route = 3

\* the row as validate-link leaves it on a valid outcome
Accessed(row) == [row EXCEPT !.is_used = TRUE, !.last_accessed_at = now]

(* C19: the step that answers a validate-link request valid true leaves
   route_links as it was except for the one row holding the token, where
   is_used is true and last_accessed_at is now, the clock of the UPDATE; a
   step that answers validate-link anything else (not found, expired, a
   failure), or suspends its handler, leaves route_links as it was; a
   validate-link step changes no other table, an existing row of route_links
   changes in no other step, and no step changes the token, owner, centre,
   route, created_at or expires_at of a row. *)
C19_ValidationFrame ==
  [][ /\ out'.kind = "validate-link"
           => /\ IF out'.body = "valid: true"
                 THEN /\ Cardinality({k \in DOMAIN route_links :
                                        route_links[k].link_token = out'.token}) = 1
                      /\ route_links'
                           = [k \in DOMAIN route_links |->
                                IF route_links[k].link_token = out'.token
                                THEN Accessed(route_links[k]) ELSE route_links[k]]
                 ELSE route_links' = route_links
              /\ UNCHANGED <<naas_access_tokens, route_settings, route_licenses>>
      /\ \A r \in BagToSet(reqs') :
           r.kind = "validate-link" /\ CopiesIn(r, reqs') > CopiesIn(r, reqs)
             => UNCHANGED <<linkVars, route_licenses>>
      /\ \A k \in DOMAIN route_links :
           /\ k \in DOMAIN route_links'
           /\ route_links'[k] # route_links[k]
                => out'.kind = "validate-link" /\ out'.body = "valid: true"
           /\ route_links'[k].link_token = route_links[k].link_token
           /\ route_links'[k].user_id = route_links[k].user_id
           /\ route_links'[k].centre_name = route_links[k].centre_name
           /\ route_links'[k].route_number = route_links[k].route_number
           /\ route_links'[k].created_at = route_links[k].created_at
           /\ route_links'[k].expires_at = route_links[k].expires_at ]_vars

\* the owner's validation marked the row used and accessed now, beside a
\* link of the same owner that no request has accessed and a link validated
\* at an earlier clock reading
C19_Witness ==
  /\ out.kind = "validate-link" /\ out.body = "valid: true" /\ ~out.is_used
  /\ \E k \in OwnLinks(out.token, out.caller) :
       /\ route_links[k].is_used /\ route_links[k].last_accessed_at = now
       /\ \E j \in DOMAIN route_links :
            /\ j # k /\ route_links[j].user_id = out.caller
            /\ ~route_links[j].is_used
            /\ route_links[j].last_accessed_at = NotAccessed
       /\ \E j \in DOMAIN route_links :
            /\ j # k /\ route_links[j].is_used
            /\ route_links[j].last_accessed_at < now

----------------------------------------------------------------------------
(* The life of a link and of an access token *)

\* the answers that report a token valid or redeem it
Redeemed(r) ==
  \/ r.kind = "validate-link" /\ r.body = "valid: true"
  \/ r.kind = "naas-data" /\ r.body = "routes"
  \/ r.kind = "naas-route" /\ r.body = "redirect"

\* the rows of the table the request r is about that hold its token
RowsAbout(r, links, tokens) ==
  IF r.kind = "validate-link"
  THEN {links[k] : k \in {j \in DOMAIN links : links[j].link_token = r.token}}
  ELSE {tokens[k] : k \in {j \in DOMAIN tokens : tokens[j].access_token = r.token}}

\* row2 is row, later in its life
Forward(row, row2) ==
  /\ row.is_used => row2.is_used
  /\ row2.expires_at = row.expires_at
  /\ row2.created_at = row.created_at
  /\ row2.user_id = row.user_id

\* the endpoints that check the expiry of a link or of an access token
ExpiryKinds == {"validate-link", "naas-data", "naas-route"}

\* the answers that report a token expired
ExpiredBodies == {LinkExpired, "Access token has expired"}

\* the two answers are about the same token of the same table
SameToken(o, o2) ==
  /\ o.token = o2.token
  /\ (o.kind = "validate-link") <=> (o2.kind = "validate-link")

(* C20 as claimed: no step resets is_used to false or changes expires_at, and
   a token that has once been reported expired is never afterwards reported
   valid or redeemed: in particular the answer that follows a report of
   expiry of the token does not report it valid or redeem it. *)
C20_Original ==
  [][ /\ \A k \in DOMAIN route_links :
           k \in DOMAIN route_links' /\ Forward(route_links[k], route_links'[k])
      /\ \A k \in DOMAIN naas_access_tokens :
           /\ k \in DOMAIN naas_access_tokens'
           /\ Forward(naas_access_tokens[k], naas_access_tokens'[k])
      /\ ~(/\ out.body \in ExpiredBodies
            /\ Redeemed(out') /\ SameToken(out, out')) ]_vars

(* C20 amended: in every step the clock does not go back, every row of
   route_links and of naas_access_tokens stays in its table with its token,
   its owner and its expires_at, and a row whose is_used is true keeps it
   true; a request is reported valid or redeemed, or suspended before its
   UPDATE, only if the clock reading its handler compared with the
   expires_at of its row was not past it; a request is reported expired only
   when the clock is past that expires_at, and a request whose SELECT is
   answered when the clock is past it is neither reported valid nor redeemed
   nor goes on to its UPDATE. Hence a token that has once been reported
   expired is never afterwards reported valid or redeemed by a request whose
   expiry check runs after that report. *)
C20_ForwardOnly ==
  [][ /\ now' >= now
      /\ \A k \in DOMAIN route_links :
           /\ k \in DOMAIN route_links'
           /\ route_links'[k].link_token = route_links[k].link_token
           /\ Forward(route_links[k], route_links'[k])
      /\ \A k \in DOMAIN naas_access_tokens :
           /\ k \in DOMAIN naas_access_tokens'
           /\ naas_access_tokens'[k].access_token = naas_access_tokens[k].access_token
           /\ Forward(naas_access_tokens[k], naas_access_tokens'[k])
      /\ Redeemed(out')
           => \A row \in RowsAbout(out', route_links', naas_access_tokens') :
                out'.at <= row.expires_at /\ out'.at <= now'
      /\ \A r \in BagToSet(reqs') :
           r.kind \in ExpiryKinds /\ r.pc = "update"
             => \A row \in RowsAbout(r, route_links', naas_access_tokens') :
                  r.at <= row.expires_at /\ r.at <= now'
      /\ out'.body \in ExpiredBodies
           => /\ RowsAbout(out', route_links', naas_access_tokens') # {}
              /\ \A row \in RowsAbout(out', route_links', naas_access_tokens') :
                   row.expires_at < now'
      /\ \A r \in BagToSet(reqs) :
           (/\ StepOf(r) /\ r.kind \in ExpiryKinds /\ r.pc = "select"
            /\ \E row \in RowsAbout(r, route_links, naas_access_tokens) :
                 row.expires_at < now)
             => BagCardinality(reqs') < BagCardinality(reqs) /\ ~Redeemed(out') ]_vars

\* the access token was redeemed, ran out, and its owner was told so
C20_Witness ==
  /\ out.kind = "naas-data" /\ out.body = "Access token has expired"
  /\ \E k \in DOMAIN naas_access_tokens :
       /\ naas_access_tokens[k].access_token = out.token
       /\ naas_access_tokens[k].is_used
       /\ naas_access_tokens[k].last_accessed_at < naas_access_tokens[k].expires_at
       /\ naas_access_tokens[k].expires_at < now

----------------------------------------------------------------------------
(* Tokens *)

(* C21: in every reachable state, whatever randomUUID() returned to the
   minting handlers and however they interleaved, no two rows of route_links
   hold the same link_token and no two rows of naas_access_tokens hold the
   same access_token; the token a minting request is answered with is held
   by the row that request inserted and by no other, and the access tokens
   handed to clients are as many as the rows. *)
C21_TokensDistinct ==
  /\ \A j, k \in DOMAIN route_links :
       route_links[j].link_token = route_links[k].link_token => j = k
  /\ \A j, k \in DOMAIN naas_access_tokens :
       naas_access_tokens[j].access_token = naas_access_tokens[k].access_token => j = k
  /\ out.kind = "generate-link" /\ out.status = 200
       => {k \in DOMAIN route_links : route_links[k].link_token = out.token}
            = {Len(route_links)}
  /\ out.kind \in TokenMintKinds /\ out.status = 200
       => {k \in DOMAIN naas_access_tokens :
             naas_access_tokens[k].access_token = out.token}
            = {Len(naas_access_tokens)}
  /\ Cardinality({h[1] : h \in handed}) = Len(naas_access_tokens)

\* two links minted at the same clock reading hold different tokens, and the
\* second request was answered with its own
C21_Witness ==
  /\ Len(route_links) = 2
  /\ route_links[1].created_at = route_links[2].created_at
  /\ route_links[1].link_token # route_links[2].link_token
  /\ out.kind = "generate-link" /\ out.status = 200
  /\ out.token = route_links[2].link_token

\* the rows of naas_access_tokens that hold the token
RowsOfAccessToken(token) ==
  {naas_access_tokens[k] :
     k \in {j \in DOMAIN naas_access_tokens : naas_access_tokens[j].access_token = token}}

(* C22: a request to naas-route or tallaght-route carries no caller, and when
   the store answers and the data file loads with a routes array its outcome
   is decided by the token and the route id alone: 404 Invalid access token
   when no row holds the token, 403 when the clock is past the row's
   expires_at, 404 Route not found for a live token and a route id the
   routes array the handler loaded does not hold, 302 for a live token and a
   route id it holds. *)
C22_RedirectChecksTokenOnly ==
  out.kind \in RouteKinds /\ out.err = "none"
    => /\ out.caller = NoUser
       /\ IF RowsOfAccessToken(out.token) = {}
          THEN out.status = 404 /\ out.body = "Invalid access token"
          ELSE \A row \in RowsOfAccessToken(out.token) :
                 IF row.expires_at < now
                 THEN out.status = 403 /\ out.body = "Access token has expired"
                 ELSE IF out.route \notin out.routes
                 THEN out.status = 404 /\ out.body = "Route not found"
                 ELSE out.status = 302 /\ out.body = "redirect"

\* a live token of user 1 was refused route 1 at the endpoint whose data file
\* held an empty routes array
C22_Witness ==
  /\ out.kind = "tallaght-route" /\ out.status = 404 /\ out.body = "Route not found"
  /\ out.route = 1 /\ out.routes = {}
  /\ \E row \in RowsOfAccessToken(out.token) : row.user_id = 1 /\ now <= row.expires_at

(* C23: after a request to a redirect endpoint was answered 302, the row of
   its token has is_used true. *)
C23_RedirectMarksUsed ==
  out.kind \in RouteKinds /\ out.status = 302
    => \A row \in RowsOfAccessToken(out.token) : row.is_used

(* C24: a token is accepted (the data endpoint answers 200 with the routes, the
   redirect endpoint 302) only by the endpoints of the dataset whose minting
   endpoint handed it out. *)
C24_TokenBoundToDataset ==
  \A dataset \in Datasets :
    \/ out.kind = DataKind(dataset) /\ out.status = 200
    \/ out.kind = RouteKind(dataset) /\ out.status = 302
    => <<out.token, MintKind(dataset)>> \in handed

\* u is not on the allow-list and every License row of u has run out at t
LicenseOverAt(u, t) ==
  /\ u \notin AdminUserIds
  /\ \A k \in DOMAIN route_licenses :
       route_licenses[k].user_id = u => route_licenses[k].expires_at <= t

\* the clock reading the handler that answered o compared with expires_at: the
\* response that grants carries it, the one that refuses was written at it
CheckedAt(o) == IF o.at = 0 THEN now ELSE o.at

(* C29: a link or an access token whose owner's licenses had all run out when
   the handler compared the clock with the token's own expires_at is still
   accepted if that clock reading was not past it: when the store answers
   and the data file loads with a routes array, validate-link by the owner
   is answered valid true, naas-data by the owner 200 with the routes, and
   naas-route 302 for a route id the routes array holds, its only refusal
   being 404 Route not found for an id the array does not hold; a request of
   the owner for a new link or token whose license check ran when the
   licenses were over is refused with 403. *)
C29_RedemptionIgnoresLicense ==
  /\ out.kind = "validate-link" /\ out.err = "none"
       => \A k \in OwnLinks(out.token, out.caller) :
            (/\ LicenseOverAt(out.caller, CheckedAt(out))
             /\ CheckedAt(out) <= route_links[k].expires_at)
              => out.status = 200 /\ out.body = "valid: true"
  /\ out.kind = "naas-data" /\ out.err = "none"
       => \A row \in RowsOfAccessToken(out.token) :
            (/\ row.user_id = out.caller /\ LicenseOverAt(out.caller, CheckedAt(out))
             /\ CheckedAt(out) <= row.expires_at)
              => out.status = 200 /\ out.body = "routes"
  /\ out.kind = "naas-route" /\ out.err = "none"
       => \A row \in RowsOfAccessToken(out.token) :
            LicenseOverAt(row.user_id, CheckedAt(out)) /\ CheckedAt(out) <= row.expires_at
              => IF out.route \in out.routes
                 THEN out.status = 302
                 ELSE out.status = 404 /\ out.body = "Route not found"
  /\ (/\ out.kind \in MintKinds /\ (out.kind = "generate-link" => BothFields(out))
      /\ out.licenseAt # 0 /\ LicenseOverAt(out.caller, out.licenseAt))
       => out.status = 403 /\ ~out.changed

\* after the license of user 1 had run out, the access token minted under it
\* was redirected to a route; the row of that token and the row of the link
\* minted under the license were marked used, by naas-data and by
\* validate-link, at a clock reading after the end of the license
C29_Witness ==
  /\ out.kind = "naas-route" /\ out.status = 302 /\ out.body = "redirect"
  /\ LicenseOverAt(1, out.at)
  /\ \E k \in DOMAIN route_licenses : route_licenses[k].user_id = 1
  /\ \E row \in RowsOfAccessToken(out.token) :
       /\ row.user_id = 1 /\ row.created_at < out.at /\ out.at <= row.expires_at
       /\ row.is_used /\ LicenseOverAt(1, row.last_accessed_at)
  /\ \E k \in DOMAIN route_links :
       /\ route_links[k].user_id = 1 /\ route_links[k].is_used
       /\ LicenseOverAt(1, route_links[k].last_accessed_at)

\* the amounts that are a positive integer, as a number or spelled out, in
\* decimal or in hexadecimal, with or without white space before it
PositiveIntegerAmounts ==
  {JsNumber(299), JsNumber(1399), JsString(<<"2", "9", "9">>),
   JsString(<<"0", "x", "1", "A">>), JsString(<<"\t", "5">>)}

\* the request supplies an amount
Supplies(amount) == amount.type # "undefined"

(* C25 as claimed: a create-payment-intent request that supplies an amount
   which is not a positive integer (zero, negative, not numeric) is answered
   400 and creates no intent, and the only handlers that go on to the gateway
   are those of requests with a positive integer amount or with none. *)
C25_InvalidAmountRefused ==
  /\ (/\ out.kind = "create-payment-intent" /\ stripe
      /\ Supplies(out.amount) /\ out.amount \notin PositiveIntegerAmounts)
       => out.status = 400 /\ ~out.created
  /\ \A r \in BagToSet(reqs) :
       r.kind = "create-payment-intent" /\ r.pc = "create"
         => ~Supplies(r.amount) \/ r.amount \in PositiveIntegerAmounts

\* the requests for the full bundle: no amount, or one of at least 1399
BundleAmounts == {JsUndefined, JsNumber(1399)}

\* the requests for a single item: an amount below 1399
SingleAmounts ==
  {JsNumber(0), JsNumber(-5), JsNumber(299), JsString(<<"0">>),
   JsString(<<"2", "9", "9">>), JsString(<<"1", "2", "a">>),
   JsString(<<"0", "x", "1", "A">>), JsString(<<"\t", "5">>)}

(* C26 as claimed: a create-payment-intent request for the full bundle (no
   amount, or an amount of at least 1399) by a user who holds a license that
   has not run out, or is on the allow-list, is answered 400 and creates no
   intent, so no handler of such a request goes on to the gateway; a request
   with an amount below 1399 is never put to the license check. A license
   held now was held when the handler checked, the License rows being never
   removed or changed. *)
C26_BundleRefusedWhileLicensed ==
  /\ (/\ out.kind = "create-payment-intent" /\ stripe
      /\ out.amount \in BundleAmounts /\ HoldsLicenseAt(out.caller, now))
       => out.status = 400 /\ ~out.created
  /\ \A r \in BagToSet(reqs) :
       (/\ r.kind = "create-payment-intent" /\ r.pc = "create"
        /\ r.amount \in BundleAmounts)
         => ~HoldsLicenseAt(r.caller, now)
  /\ out.kind = "create-payment-intent" /\ out.amount \in SingleAmounts => ~out.checked
  /\ \A r \in BagToSet(reqs) :
       r.kind = "create-payment-intent" /\ r.amount \in SingleAmounts
         => ~r.checked /\ r.pc = "create"

\* the awaits of a handler: the statements of the store, of the gateway and
\* of the language model whose answer, or whose failure, the handler goes on
\* from
Awaits(kind) ==
  CASE kind = "webhook" -> {"select", "insert"}
    [] kind = "confirm" -> {"retrieve", "select", "insert"}
    [] kind = "create-payment-intent" -> {"license", "license-retry", "create"}
    [] kind = "license-status" -> {"license", "license-retry"}
    [] kind = "generate-link" -> {"license", "license-retry", "settings", "insert"}
    [] kind \in TokenMintKinds -> {"license", "license-retry", "insert"}
    [] kind = "validate-link" -> {"select", "update"}
    [] kind \in DataKinds -> {"select", "update"}
    [] kind \in RouteKinds -> {"select"}
    [] kind = "centres" -> {"license", "license-retry"}
    [] kind \in {"active-links", "settings"} -> {"select"}
    [] kind = "checkout" -> {"license", "license-retry", "create"}
    [] kind = "message" -> {"select", "insert", "update", "llm"}
    [] OTHER -> {}

\* the suspended request r waits at an await of its handler
CanGoOn(r) == r.pc \in Awaits(r.kind)

\* a response: the handler is over and wrote a status
IsResponse(o) == o.pc = "done" /\ o.status \in 200..599

\* what a caught error of the store is logged as
StoreFailures == {"outage", "unique", "is_active missing", "settings unread"}

\* what a caught error of the payment gateway or of the language model is
\* logged as
GatewayFailures == {"error", "no client_secret", "stripe undefined", "completion"}

\* the failure the response o reports was caught by hasActiveLicense, which
\* returned null or the result of its retry, or by getLinkExpiryHours, which
\* returned its default: the handler went on
Absorbed(o) ==
  \/ /\ o.kind \in {"license-status", "centres", "create-payment-intent", "checkout"}
     /\ o.err \in {"outage", "is_active missing"}
  \/ o.kind = "generate-link" /\ o.err = "settings unread"

\* the tables of the store
Tables == <<route_licenses, route_links, naas_access_tokens, route_settings, chatbot_usage>>

\* a step adds one request to those in flight and writes no response, or
\* takes one out and writes its response, or leaves them all as they are;
\* it never changes a request that stays in flight other than the one it
\* runs, and never takes out a request without a response
OneResponsePerStep ==
  LET n == BagCardinality(reqs)
      m == BagCardinality(reqs')
  IN  /\ m \in {n - 1, n, n + 1}
      /\ m = n - 1 => /\ IsResponse(out')
                      /\ \E r \in BagToSet(reqs) :
                           /\ reqs' = reqs (-) SetToBag({r})
                           /\ out'.kind = r.kind /\ out'.caller = r.caller
      /\ m = n + 1 => /\ out'.pc = "idle"
                      /\ \E r \in BagToSet(reqs') : reqs' = reqs (+) SetToBag({r})
      /\ m = n /\ reqs' # reqs
           => /\ out'.pc = "idle"
              /\ \E r \in BagToSet(reqs), r2 \in BagToSet(reqs') :
                   /\ reqs' = (reqs (-) SetToBag({r})) (+) SetToBag({r2})
                   /\ r2.kind = r.kind /\ r2.caller = r.caller

(* C27 as claimed: a request to any of the endpoints that is suspended has
   not been answered and waits at an await of its handler; a step writes at
   most the one response of the request whose handler it ends, which leaves
   the requests in flight with that step and so is not answered again; every
   response that reports a failure of the store or of the gateway has a
   status of 400 to 599, and the step that writes it changes no table and no
   other request in flight; and once the clients stop sending, every request
   in flight is answered. *)
C27_Original ==
  /\ [](\A r \in BagToSet(reqs) : r.pc # "done" /\ r.status = 0 /\ CanGoOn(r))
  /\ [](out.pc # "idle" => IsResponse(out))
  /\ [][ /\ OneResponsePerStep
         /\ (out'.pc = "done" /\ out'.err \in StoreFailures \cup GatewayFailures)
              => /\ out'.status \in 400..599
                 /\ UNCHANGED Tables ]_vars
  /\ (~sending ~> reqs = EmptyBag)

(* C27 amended: the same, except for the failures hasActiveLicense and
   getLinkExpiryHours absorb: a failed license query of license-status or of
   create-payment-intent, and a failed settings read of generate-link, after
   which the handler goes on as with no license, with the result of the
   retry, or with the default expiry, and its response may be a 2xx. Every
   other response that reports a failure (of the store, the gateway, the
   language model, the data file, or a TypeError) has a status of 400 to
   599. *)
C27_OneResponse ==
  /\ [](\A r \in BagToSet(reqs) : r.pc # "done" /\ r.status = 0 /\ CanGoOn(r))
  /\ [](out.pc # "idle" => IsResponse(out))
  /\ [][ /\ OneResponsePerStep
         /\ (out'.pc = "done" /\ out'.err # "none" /\ ~Absorbed(out'))
              => out'.status \in 400..599
         /\ (/\ out'.pc = "done" /\ out'.err \in StoreFailures \cup GatewayFailures
             /\ ~Absorbed(out'))
              => UNCHANGED Tables ]_vars
  /\ (~sending ~> reqs = EmptyBag)

\* after the clients stopped sending, the store failed under one handler,
\* which answered 500, while the handler of another endpoint was suspended
\* and stayed so
C27_Witness ==
  /\ ~sending
  /\ out.pc = "done" /\ out.err = "outage" /\ out.status = 500
  /\ \E r \in BagToSet(reqs) : r.kind # out.kind /\ r.pc \in {"insert", "update", "llm"}

\* the requests of user u that checkAndIncrementUsage allowed on day d
Passed(u, d) == CopiesIn(<<u, d>>, passed)

(* C28 as claimed: for every user and day at most 8 message requests are
   allowed by checkAndIncrementUsage, however the handlers interleave, and a
   request with a message that was not allowed and met no failure is answered
   429 without a call of the language model. *)
C28_AtMostEightPerDay ==
  /\ \A ud \in BagToSet(passed) : Passed(ud[1], ud[2]) <= 8
  /\ (/\ out.kind = "message" /\ out.pc = "done" /\ ~MessageMissing(out.message)
      /\ ~out.allowed /\ out.err = "none")
       => out.status = 429 /\ ~out.llm

\* the stored question_count of user u for day d, 0 when there is no row
StoredIn(table, u, d) ==
  LET rows == {k \in DOMAIN table : table[k].user_id = u /\ table[k].usage_date = d}
  IN  IF rows = {} THEN 0 ELSE table[CHOOSE k \in rows : TRUE].question_count

Stored(u, d) == StoredIn(chatbot_usage, u, d)

\* the response refuses the request before it was counted: the message is
\* missing, or the daily limit was reached
RefusedUncounted(o) ==
  /\ o.kind = "message"
  /\ \/ o.status = 400
     \/ o.status = 429 /\ o.body = "Daily question limit reached"

\* the response was written after the quota check let the request pass: the
\* language model was called, or the handler stopped short of the call for the
\* key or for a conversationHistory it could not spread
AnsweredPastQuota(o) ==
  /\ o.kind = "message"
  /\ \/ o.llm
     \/ o.body = "Chatbot service is not configured"
     \/ o.err \in {NotIterable.name, InvalidKeyFormat.name}

(* C30: for every user and day there is at most one row, and its
   question_count (0 without a row) is the number of that user's message
   requests that checkAndIncrementUsage allowed that day; a request whose
   call of the language model was made, or given up for the key or for the
   conversationHistory after the quota check, was allowed and counted
   whatever the call answered, also when it failed; a
   request answered 400 for its message or 429 by the daily limit was not
   allowed, and the step that answers it leaves the table as it is.  (The 429
   that passes on a rate limit of the language model is a failed model call:
   it was counted.) *)
C30_CountIsRequestsAllowed ==
  /\ [](/\ \A j, k \in DOMAIN chatbot_usage :
             (/\ chatbot_usage[j].user_id = chatbot_usage[k].user_id
              /\ chatbot_usage[j].usage_date = chatbot_usage[k].usage_date) => j = k
        /\ \A k \in DOMAIN chatbot_usage :
             chatbot_usage[k].question_count
               = Passed(chatbot_usage[k].user_id, chatbot_usage[k].usage_date)
        /\ \A ud \in BagToSet(passed) : Stored(ud[1], ud[2]) = Passed(ud[1], ud[2])
        /\ AnsweredPastQuota(out) => out.allowed /\ Stored(out.caller, out.today) >= 1
        /\ RefusedUncounted(out) => ~out.allowed /\ ~out.llm)
  /\ [][ /\ RefusedUncounted(out') => UNCHANGED <<chatbot_usage, passed>>
         /\ \A k \in DOMAIN chatbot_usage' :
              LET u == chatbot_usage'[k].user_id
                  d == chatbot_usage'[k].usage_date
              IN  StoredIn(chatbot_usage', u, d) # StoredIn(chatbot_usage, u, d)
                    => /\ StoredIn(chatbot_usage', u, d) = StoredIn(chatbot_usage, u, d) + 1
                       /\ out'.kind = "message" => out'.allowed /\ out'.caller = u ]_vars

\* the call of the language model failed for a request that had been allowed,
\* and the request is counted in the row of its user and day
C30_Witness ==
  /\ out.kind = "message" /\ out.llm /\ out.status = 500 /\ out.allowed
  /\ Stored(out.caller, out.today) = Passed(out.caller, out.today)
  /\ Stored(out.caller, out.today) >= 1

====
